---- MODULE Spec2Model ----
(***************************************************************************)
(* The aggregation engine of src/src/moonblade/agg.rs: the accumulator     *)
(* atoms, the CompositeAggregator, the concretization of an aggregation    *)
(* list, the planner and the two streaming programs (AggregationProgram    *)
(* and GroupAggregationProgram).                                           *)
(*                                                                         *)
(* f64 values are modelled as exact fractions [num, den] in lowest terms;  *)
(* NaN and the infinities are left out of the value universe.              *)
(***************************************************************************)
EXTENDS Integers, Sequences, FiniteSets, TLC

VARIABLES
    pc,           \* "start" | "ready" | "failed" | "panicked" | "drained"
    source,       \* the parsed aggregation source handed to parse (Aggregations)
    parseError,   \* "" or the ConcretizationError kind returned by parse
    planner,      \* ConcreteAggregationPlanner: [execution_plan, output_plan]
    aggregators,  \* AggregationProgram.aggregators: Seq(CompositeAggregator)
    groups,       \* GroupAggregationProgram.groups: group key -> Seq(CompositeAggregator)
    lastCall,     \* the last call made and what it returned: [op, ok, ret]
    history,      \* ghost: the records submitted since construction or the last
                  \* clear, each with whether run_with_record returned Ok
    cleared,      \* ghost: clear() has been called on a program that had records
    ghistory,     \* ghost: group key -> records submitted with that key
    arith,        \* the Integer arithmetic of the build: [limit, checks]
    repeats       \* ghost: records of 2^52 submitted after those history keeps

vars == << pc, source, parseError, planner, aggregators, groups, lastCall,
           history, cleared, ghistory, arith, repeats >>

----------------------------------------------------------------------------
(* Bounds of the model *)

MaxAggs == 2        \* aggregation calls in one source
MaxRecords == 3     \* records submitted since construction / the last clear
MaxIndex == 1       \* greatest row index a caller passes
MaxPlanAggs == 3    \* aggregation calls in one source, planner-only specification
MaxGroupRecords == 3 \* records submitted to the group program, all groups together
MaxStatRecords == 4 \* records submitted, fixed-source specification
MaxWideRecords == 3 \* records of a mixed stream, wide-Integer specification
MaxLongRecords == 2048 \* records of the stream that repeats 2^52

----------------------------------------------------------------------------
(* DynamicNumber: Integer or Float *)

RECURSIVE GCD(_, _)
GCD(a, b) == IF b = 0 THEN a ELSE GCD(b, a % b)

Abs(x) == IF x < 0 THEN -x ELSE x

\* A fraction in lowest terms with a positive denominator.
Frac(n, d) ==
    LET g == GCD(Abs(n), Abs(d))
        s == IF d < 0 THEN -1 ELSE 1
    IN  [num |-> s * (n \div g), den |-> s * (d \div g)]

FZero == [num |-> 0, den |-> 1]
FAdd(x, y) == Frac(x.num * y.den + y.num * x.den, x.den * y.den)
FSub(x, y) == Frac(x.num * y.den - y.num * x.den, x.den * y.den)
FMul(x, y) == Frac(x.num * y.num, x.den * y.den)
FDiv(x, y) == Frac(x.num * y.den, x.den * y.num)
FOfInt(i) == [num |-> i, den |-> 1]
FLess(x, y) == x.num * y.den < y.num * x.den

Integer(i) == [float |-> FALSE, num |-> i, den |-> 1]
Float(f) == [float |-> TRUE, num |-> f.num, den |-> f.den]
AsFrac(n) == [num |-> n.num, den |-> n.den]

NumLess(a, b) == FLess(AsFrac(a), AsFrac(b))

\* Integer is a signed 64-bit integer. The Integers of one behaviour are all
\* counted in one unit, and arith.limit is 2^63 counted in that unit: an
\* Integer holds -limit .. limit - 1. Where the unit is 1 the model's values
\* stay far from 2^63 and limit is written 0. arith.checks tells whether the
\* build checks Integer overflow (and panics) or wraps around.
Narrow == [limit |-> 0, checks |-> FALSE]

IntOverflows(n) == arith.limit # 0 /\ (n < -arith.limit \/ n >= arith.limit)

\* Two's complement wrap-around.
IntWrap(n) ==
    IF arith.limit = 0 THEN n
    ELSE ((n + arith.limit) % (2 * arith.limit)) - arith.limit

\* a + b leaves the range of Integer.
NumAddOverflows(a, b) == ~a.float /\ ~b.float /\ IntOverflows(a.num + b.num)

\* a + b: Integer + Integer stays Integer, anything else is a Float.
NumAdd(a, b) ==
    IF ~a.float /\ ~b.float
    THEN Integer(IntWrap(a.num + b.num))
    ELSE Float(FAdd(AsFrac(a), AsFrac(b)))

\* a / b: any division gives a Float.
NumDiv(a, b) == Float(FDiv(AsFrac(a), AsFrac(b)))

----------------------------------------------------------------------------
(* DynamicValue *)

StringValue(s) == [tag |-> "String", s |-> s, n |-> Integer(0), b |-> FALSE]
NumberValue(n) == [tag |-> "Number", s |-> "", n |-> n, b |-> FALSE]
BooleanValue(b) == [tag |-> "Boolean", s |-> "", n |-> Integer(0), b |-> b]
NoneValue == [tag |-> "None", s |-> "", n |-> Integer(0), b |-> FALSE]

\* The strings of the model, with their bytes and, where they parse as a
\* number, the number they parse to.
Strings == {"", "1", "2", "x"}

StrBytes(s) ==
    CASE s = "" -> << >>
      [] s = "1" -> << 49 >>
      [] s = "2" -> << 50 >>
      [] s = "x" -> << 120 >>
      [] s = "3" -> << 51 >>
      [] s = "4" -> << 52 >>
      [] s = "true" -> << 116, 114, 117, 101 >>
      [] s = "false" -> << 102, 97, 108, 115, 101 >>

\* Byte-lexicographic order of str / String.
RECURSIVE BytesLess(_, _)
BytesLess(x, y) ==
    IF y = << >> THEN FALSE
    ELSE IF x = << >> THEN TRUE
    ELSE IF Head(x) # Head(y) THEN Head(x) < Head(y)
    ELSE BytesLess(Tail(x), Tail(y))

StrLess(s, t) == BytesLess(StrBytes(s), StrBytes(t))

\* str::parse::<DynamicNumber>
ParsesAsNumber(s) == s \in {"1", "2", "3", "4"}
ParseNumber(s) ==
    CASE s = "1" -> Integer(1)
      [] s = "2" -> Integer(2)
      [] s = "3" -> Integer(3)
      [] s = "4" -> Integer(4)

\* Decimal text of an Integer; a Float with an integral value prints like
\* the Integer, any other Float as its fraction.
NumberText(n) ==
    IF n.den = 1 THEN ToString(n.num)
    ELSE ToString(n.num) \o "/" \o ToString(n.den)

is_nullish(v) == v.tag = "None" \/ (v.tag = "String" /\ v.s = "")

is_truthy(v) ==
    CASE v.tag = "None" -> FALSE
      [] v.tag = "Boolean" -> v.b
      [] v.tag = "Number" -> v.n.num # 0
      [] v.tag = "String" -> v.s # ""

\* Result<DynamicNumber, CallError>
try_as_number(v) ==
    CASE v.tag = "Number" -> [ok |-> TRUE, n |-> v.n]
      [] v.tag = "String" /\ ParsesAsNumber(v.s) -> [ok |-> TRUE, n |-> ParseNumber(v.s)]
      [] OTHER -> [ok |-> FALSE, n |-> Integer(0)]

\* Result<f64, CallError>
try_as_f64(v) ==
    LET r == try_as_number(v)
    IN  [ok |-> r.ok, f |-> AsFrac(r.n)]

\* Result<Cow<str>, CallError>
try_as_str(v) ==
    CASE v.tag = "String" -> [ok |-> TRUE, s |-> v.s]
      [] v.tag = "Number" -> [ok |-> TRUE, s |-> NumberText(v.n)]
      [] v.tag = "Boolean" -> [ok |-> TRUE, s |-> IF v.b THEN "true" ELSE "false"]
      [] v.tag = "None" -> [ok |-> TRUE, s |-> ""]

serialize_as_bytes(v) ==
    CASE v.tag = "String" -> v.s
      [] v.tag = "Number" -> NumberText(v.n)
      [] v.tag = "Boolean" -> (IF v.b THEN "true" ELSE "false")
      [] v.tag = "None" -> ""

\* Option<T>: << >> is None, << x >> is Some(x).
None == << >>
Some(x) == << x >>
IsNone(o) == o = << >>
Unwrap(o) == o[1]

\* DynamicValue::from(Option<..>) / from(number) / from(bool) / from(usize)
ValueFromOptNumber(o) == IF IsNone(o) THEN NoneValue ELSE NumberValue(Unwrap(o))
ValueFromOptString(o) == IF IsNone(o) THEN NoneValue ELSE StringValue(Unwrap(o))
ValueFromOptValue(o) == IF IsNone(o) THEN NoneValue ELSE Unwrap(o)
ValueFromOptF64(o) == IF IsNone(o) THEN NoneValue ELSE NumberValue(Float(Unwrap(o)))

----------------------------------------------------------------------------
(* The accumulator atoms *)

\* struct Count
Count_new == [kind |-> "Count", current |-> 0]
Count_clear(c) == [c EXCEPT !.current = 0]
Count_add(c) == [c EXCEPT !.current = @ + 1]
Count_get(c) == c.current

\* struct AllAny
AllAny_new == [kind |-> "AllAny", all |-> TRUE, any |-> FALSE]
\* A clear that resets any and leaves all.
M_AllAny_clear(a) == [a EXCEPT !.any = FALSE]

AllAny_clear(a) == [a EXCEPT !.all = TRUE, !.any = FALSE]
\* An add whose all keeps only the latest value.
M_AllAny_add(a, new_bool) ==
    [a EXCEPT !.all = new_bool, !.any = a.any \/ new_bool]

AllAny_add(a, new_bool) ==
    [a EXCEPT !.all = a.all /\ new_bool, !.any = a.any \/ new_bool]

\* struct FirstLast
FirstLast_new == [kind |-> "FirstLast", first |-> None, last |-> None]
FirstLast_clear(f) == [f EXCEPT !.first = None, !.last = None]
\* An add that keeps as first the value with the least index and as last
\* the value with the greatest.
M_FirstLast_add(f, index, next_value) ==
    [f EXCEPT !.first = IF IsNone(f.first) \/ index < Unwrap(f.first)[1]
                        THEN Some(<< index, next_value >>) ELSE @,
              !.last = IF IsNone(f.last) \/ index >= Unwrap(f.last)[1]
                       THEN Some(<< index, next_value >>) ELSE @]

FirstLast_add(f, index, next_value) ==
    [f EXCEPT !.first = IF IsNone(f.first) THEN Some(<< index, next_value >>) ELSE @,
              !.last = Some(<< index, next_value >>)]
FirstLast_first(f) == IF IsNone(f.first) THEN None ELSE Some(Unwrap(f.first)[2])
FirstLast_last(f) == IF IsNone(f.last) THEN None ELSE Some(Unwrap(f.last)[2])

\* struct Sum
Sum_new == [kind |-> "Sum", current |-> Integer(0)]
Sum_clear(s) == [s EXCEPT !.current = Integer(0)]
\* An add that turns a sum with an integral value back into an Integer.
M_Sum_add(s, value) ==
    [s EXCEPT !.current = IF NumAdd(s.current, value).den = 1
                          THEN Integer(NumAdd(s.current, value).num)
                          ELSE NumAdd(s.current, value)]

Sum_add(s, value) == [s EXCEPT !.current = NumAdd(s.current, value)]
Sum_get(s) == s.current
\* *a += b overflows and the build panics on it.
Sum_add_panics(s, value) == arith.checks /\ NumAddOverflows(s.current, value)

\* struct Extent
Extent_new == [kind |-> "Extent", extent |-> None]
Extent_clear(e) == [e EXCEPT !.extent = None]
\* An add that moves the minimum only.
M_Extent_add(e, value) ==
    IF IsNone(e.extent)
    THEN [e EXCEPT !.extent = Some(<< value, value >>)]
    ELSE LET min == Unwrap(e.extent)[1]
             max == Unwrap(e.extent)[2]
         IN  [e EXCEPT !.extent =
                 Some(<< IF NumLess(value, min) THEN value ELSE min, max >>)]

Extent_add(e, value) ==
    IF IsNone(e.extent)
    THEN [e EXCEPT !.extent = Some(<< value, value >>)]
    ELSE LET min == Unwrap(e.extent)[1]
             max == Unwrap(e.extent)[2]
         IN  [e EXCEPT !.extent =
                 Some(<< IF NumLess(value, min) THEN value ELSE min,
                         IF NumLess(max, value) THEN value ELSE max >>)]
Extent_min(e) == IF IsNone(e.extent) THEN None ELSE Some(Unwrap(e.extent)[1])
Extent_max(e) == IF IsNone(e.extent) THEN None ELSE Some(Unwrap(e.extent)[2])

\* struct LexicographicExtent
LexicographicExtent_new == [kind |-> "LexicographicExtent", extent |-> None]
LexicographicExtent_clear(e) == [e EXCEPT !.extent = None]
LexicographicExtent_add(e, value) ==
    IF IsNone(e.extent)
    THEN [e EXCEPT !.extent = Some(<< value, value >>)]
    ELSE LET min == Unwrap(e.extent)[1]
             max == Unwrap(e.extent)[2]
         IN  [e EXCEPT !.extent =
                 Some(<< IF StrLess(value, min) THEN value ELSE min,
                         IF StrLess(max, value) THEN value ELSE max >>)]
LexicographicExtent_first(e) == IF IsNone(e.extent) THEN None ELSE Some(Unwrap(e.extent)[1])
LexicographicExtent_last(e) == IF IsNone(e.extent) THEN None ELSE Some(Unwrap(e.extent)[2])

\* struct Numbers
Numbers_new == [kind |-> "Numbers", numbers |-> << >>]
Numbers_clear(n) == [n EXCEPT !.numbers = << >>]
Numbers_add(n, number) == [n EXCEPT !.numbers = Append(@, number)]

\* Insert x after every element that is not greater than it (stable).
RECURSIVE InsertSorted(_, _)
InsertSorted(sorted, x) ==
    IF sorted = << >> THEN << x >>
    ELSE IF NumLess(x, Head(sorted)) THEN << x >> \o sorted
    ELSE << Head(sorted) >> \o InsertSorted(Tail(sorted), x)

\* slice::sort_by(partial_cmp): a stable sort.
RECURSIVE SortNumbers(_)
SortNumbers(s) ==
    IF s = << >> THEN << >>
    ELSE InsertSorted(SortNumbers(SubSeq(s, 1, Len(s) - 1)), s[Len(s)])

\* A finalize that leaves the numbers in submission order.
M_Numbers_finalize(n) == n

Numbers_finalize(n) == [n EXCEPT !.numbers = SortNumbers(@)]

\* A median whose Low variant forgets to step back on an even count.
M_Numbers_median(n, median_type) ==
    LET count == Len(n.numbers)
        midpoint == count \div 2
    IN  IF count = 0 THEN None
        ELSE CASE median_type = "Low" -> Some(n.numbers[midpoint + 1])
               [] median_type = "High" -> Some(n.numbers[midpoint + 1])
               [] median_type = "Interpolation" ->
                    IF count % 2 = 1
                    THEN Some(n.numbers[midpoint + 1])
                    ELSE Some(NumDiv(NumAdd(n.numbers[midpoint], n.numbers[midpoint + 1]),
                                     Float(FOfInt(2))))

\* Vec index from 0: numbers[i] of the code is n.numbers[i + 1].
Numbers_median(n, median_type) ==
    LET count == Len(n.numbers)
        midpoint == count \div 2
    IN  IF count = 0 THEN None
        ELSE CASE median_type = "Low" ->
                    Some(n.numbers[(IF count % 2 = 0 THEN midpoint - 1 ELSE midpoint) + 1])
               [] median_type = "High" ->
                    Some(n.numbers[midpoint + 1])
               [] median_type = "Interpolation" ->
                    IF count % 2 = 1
                    THEN Some(n.numbers[midpoint + 1])
                    ELSE Some(NumDiv(NumAdd(n.numbers[midpoint], n.numbers[midpoint + 1]),
                                     Float(FOfInt(2))))

\* *down + *up overflows and the build panics on it.
Numbers_median_panics(n, median_type) ==
    /\ arith.checks
    /\ median_type = "Interpolation"
    /\ Len(n.numbers) > 0
    /\ Len(n.numbers) % 2 = 0
    /\ NumAddOverflows(n.numbers[Len(n.numbers) \div 2],
                       n.numbers[(Len(n.numbers) \div 2) + 1])

\* struct Frequencies: counter is a HashMap<String, usize>
Frequencies_new == [kind |-> "Frequencies", counter |-> [k \in {} |-> 0]]
Frequencies_clear(f) == [f EXCEPT !.counter = [k \in {} |-> 0]]
Frequencies_add(f, value) ==
    [f EXCEPT !.counter =
        [k \in (DOMAIN f.counter) \cup {value} |->
            IF k \in DOMAIN f.counter
            THEN (IF k = value THEN f.counter[k] + 1 ELSE f.counter[k])
            ELSE 1]]

\* A comparison that looks at the count alone.
M_EntryGreater(c1, k1, c2, k2) == c1 > c2

\* (count, key) > entry on tuples (usize, &String)
EntryGreater(c1, k1, c2, k2) == c1 > c2 \/ (c1 = c2 /\ StrLess(k2, k1))

\* The orders in which counter.iter() may yield the keys of the map.
IterationOrders(f) ==
    {o \in [1..Cardinality(DOMAIN f.counter) -> DOMAIN f.counter] :
        \A i, j \in DOMAIN o : o[i] = o[j] => i = j}

\* The loop of mode from the i-th key of the iteration on; max is
\* Option<(usize, &String)>.
RECURSIVE ModeFrom(_, _, _, _)
ModeFrom(f, order, i, max) ==
    IF i > Len(order) THEN max
    ELSE LET key == order[i]
             count == f.counter[key]
         IN  ModeFrom(f, order, i + 1,
                      IF IsNone(max) THEN Some(<< count, key >>)
                      ELSE IF EntryGreater(count, key, Unwrap(max)[1], Unwrap(max)[2])
                      THEN Some(<< count, key >>)
                      ELSE max)

\* Frequencies::mode when the map iterates in the given order.
Frequencies_mode_iter(f, order) ==
    LET max == ModeFrom(f, order, 1, None)
    IN  IF IsNone(max) THEN None ELSE Some(Unwrap(max)[2])

\* Frequencies::mode: the map iterates in an order of its own.
Frequencies_mode(f) ==
    Frequencies_mode_iter(f, CHOOSE o \in IterationOrders(f) : TRUE)
Frequencies_cardinality(f) == Cardinality(DOMAIN f.counter)

\* struct Welford
Welford_new == [kind |-> "Welford", count |-> 0, mean |-> FZero, m2 |-> FZero]
\* A clear that forgets the second moment.
M_Welford_clear(w) == [w EXCEPT !.count = 0, !.mean = FZero]

Welford_clear(w) == [w EXCEPT !.count = 0, !.mean = FZero, !.m2 = FZero]
Welford_add(w, value) ==
    LET count == w.count + 1
        delta == FSub(value, w.mean)
        mean == FAdd(w.mean, FDiv(delta, FOfInt(count)))
        delta2 == FSub(value, mean)
        m2 == FAdd(w.m2, FMul(delta, delta2))
    IN  [w EXCEPT !.count = count, !.mean = mean, !.m2 = m2]
Welford_mean(w) == IF w.count = 0 THEN None ELSE Some(w.mean)
\* A population variance that needs two values, like the sample variance.
M_Welford_variance(w) == IF w.count < 2 THEN None ELSE Some(FDiv(w.m2, FOfInt(w.count)))

Welford_variance(w) == IF w.count < 1 THEN None ELSE Some(FDiv(w.m2, FOfInt(w.count)))
Welford_sample_variance(w) ==
    IF w.count < 2 THEN None ELSE Some(FDiv(w.m2, FOfInt(w.count - 1)))

\* f64::sqrt: exact when the fraction is a square, otherwise kept as the
\* root of the fraction.
IsSquare(n) == \E r \in 0..n : r * r = n
ISqrt(n) == CHOOSE r \in 0..n : r * r = n
SqrtValue(o) ==
    IF IsNone(o) THEN NoneValue
    ELSE LET f == Unwrap(o)
         IN  IF IsSquare(f.num) /\ IsSquare(f.den)
             THEN NumberValue(Float([num |-> ISqrt(f.num), den |-> ISqrt(f.den)]))
             ELSE StringValue("sqrt(" \o NumberText(Float(f)) \o ")")
Welford_stdev(w) == SqrtValue(Welford_variance(w))
Welford_sample_stdev(w) == SqrtValue(Welford_sample_variance(w))

\* enum Aggregator: clear / finalize dispatch
Aggregator_clear(a) ==
    CASE a.kind = "AllAny" -> AllAny_clear(a)
      [] a.kind = "Count" -> Count_clear(a)
      [] a.kind = "Extent" -> Extent_clear(a)
      [] a.kind = "FirstLast" -> FirstLast_clear(a)
      [] a.kind = "LexicographicExtent" -> LexicographicExtent_clear(a)
      [] a.kind = "Frequencies" -> Frequencies_clear(a)
      [] a.kind = "Numbers" -> Numbers_clear(a)
      [] a.kind = "Sum" -> Sum_clear(a)
      [] a.kind = "Welford" -> Welford_clear(a)

Aggregator_finalize(a) ==
    IF a.kind = "Numbers" THEN Numbers_finalize(a) ELSE a

Aggregator_new(kind) ==
    CASE kind = "AllAny" -> AllAny_new
      [] kind = "Count" -> Count_new
      [] kind = "Extent" -> Extent_new
      [] kind = "FirstLast" -> FirstLast_new
      [] kind = "LexicographicExtent" -> LexicographicExtent_new
      [] kind = "Frequencies" -> Frequencies_new
      [] kind = "Numbers" -> Numbers_new
      [] kind = "Sum" -> Sum_new
      [] kind = "Welford" -> Welford_new

----------------------------------------------------------------------------
(* ConcreteAggregationMethod and the CompositeAggregator *)

\* ConcreteAggregationMethod::parse: "" stands for Option::None.
ConcreteAggregationMethod_parse(name) ==
    CASE name = "all" -> "All"
      [] name = "any" -> "Any"
      [] name = "cardinality" -> "Cardinality"
      [] name = "count" -> "Count"
      [] name = "first" -> "First"
      [] name = "last" -> "Last"
      [] name = "lex_first" -> "LexFirst"
      [] name = "lex_last" -> "LexLast"
      [] name = "min" -> "Min"
      [] name = "max" -> "Max"
      [] name \in {"avg", "mean"} -> "Mean"
      [] name = "median" -> "MedianInterpolation"
      [] name = "median_high" -> "MedianHigh"
      [] name = "median_low" -> "MedianLow"
      [] name = "mode" -> "Mode"
      [] name \in {"var", "var_pop"} -> "VarPop"
      [] name = "var_sample" -> "VarSample"
      [] name \in {"stddev", "stddev_pop"} -> "StddevPop"
      [] name = "stddev_sample" -> "StddevSample"
      [] name = "sum" -> "Sum"
      [] OTHER -> ""

\* The MedianType carried by a Median(..) method.
MedianTypeOf(method) ==
    CASE method = "MedianInterpolation" -> "Interpolation"
      [] method = "MedianHigh" -> "High"
      [] method = "MedianLow" -> "Low"

IsMedian(method) == method \in {"MedianInterpolation", "MedianHigh", "MedianLow"}

\* The match of add_method: the Aggregator variant a method is upserted as.
KindOfMethod(method) ==
    CASE method \in {"All", "Any"} -> "AllAny"
      [] method = "Count" -> "Count"
      [] method \in {"Min", "Max"} -> "Extent"
      [] method \in {"First", "Last"} -> "FirstLast"
      [] method \in {"LexFirst", "LexLast"} -> "LexicographicExtent"
      [] IsMedian(method) -> "Numbers"
      [] method \in {"Mode", "Cardinality"} -> "Frequencies"
      [] method = "Sum" -> "Sum"
      [] method \in {"Mean", "VarPop", "VarSample", "StddevPop", "StddevSample"} -> "Welford"

\* Iterator::position, counted from 0; -1 stands for Option::None.
RECURSIVE PositionFrom(_, _, _)
PositionFrom(seq, Test(_), i) ==
    IF i > Len(seq) THEN -1
    ELSE IF Test(seq[i]) THEN i - 1
    ELSE PositionFrom(seq, Test, i + 1)

Position(seq, Test(_)) == PositionFrom(seq, Test, 1)

CompositeAggregator_new == [methods |-> << >>]

CompositeAggregator_clear(c) ==
    [methods |-> [i \in 1..Len(c.methods) |-> Aggregator_clear(c.methods[i])]]

\* An add_method that pushes a new atom at every call.
M_CompositeAggregator_add_method(c, method) ==
    [aggregator |-> [methods |-> Append(c.methods, Aggregator_new(KindOfMethod(method)))],
     idx |-> Len(c.methods)]

\* An add_method that puts a missing atom in front of the others.
M_AddMethodInFront(c, method) ==
    LET kind == KindOfMethod(method)
        IsKind(item) == item.kind = kind
        pos == Position(c.methods, IsKind)
    IN  IF pos # -1
        THEN [aggregator |-> c, idx |-> pos]
        ELSE [aggregator |-> [methods |-> << Aggregator_new(kind) >> \o c.methods],
              idx |-> 0]

\* upsert_aggregator!: [aggregator, idx], the aggregator after the call and
\* the index returned.
CompositeAggregator_add_method(c, method) ==
    LET kind == KindOfMethod(method)
        IsKind(item) == item.kind = kind
        pos == Position(c.methods, IsKind)
    IN  IF pos # -1
        THEN [aggregator |-> c, idx |-> pos]
        ELSE [aggregator |-> [methods |-> Append(c.methods, Aggregator_new(kind))],
              idx |-> Len(c.methods)]

\* A Count arm that counts every value, nullish or not.
M_ProcessCount(count, value) == Count_add(count)

\* The Count arm of process_value for Some(value).
ProcessCount(count, value) ==
    IF ~is_nullish(value) THEN Count_add(count) ELSE count

\* One iteration of the loop of process_value on one atom, for Some(value):
\* [ok, atom]; ok is FALSE where the ? operator returns the CallError.
ProcessSome(method, index, value) ==
    CASE method.kind = "AllAny" ->
            [ok |-> TRUE, atom |-> AllAny_add(method, is_truthy(value))]
      [] method.kind = "Count" ->
            [ok |-> TRUE, atom |-> ProcessCount(method, value)]
      [] method.kind = "Extent" ->
            LET r == try_as_number(value)
            IN  IF r.ok THEN [ok |-> TRUE, atom |-> Extent_add(method, r.n)]
                ELSE [ok |-> FALSE, atom |-> method]
      [] method.kind = "FirstLast" ->
            [ok |-> TRUE,
             atom |-> IF ~is_nullish(value) THEN FirstLast_add(method, index, value)
                      ELSE method]
      [] method.kind = "LexicographicExtent" ->
            LET r == try_as_str(value)
            IN  IF r.ok THEN [ok |-> TRUE, atom |-> LexicographicExtent_add(method, r.s)]
                ELSE [ok |-> FALSE, atom |-> method]
      [] method.kind = "Frequencies" ->
            LET r == try_as_str(value)
            IN  IF r.ok THEN [ok |-> TRUE, atom |-> Frequencies_add(method, r.s)]
                ELSE [ok |-> FALSE, atom |-> method]
      [] method.kind = "Numbers" ->
            LET r == try_as_number(value)
            IN  IF r.ok THEN [ok |-> TRUE, atom |-> Numbers_add(method, r.n)]
                ELSE [ok |-> FALSE, atom |-> method]
      [] method.kind = "Sum" ->
            LET r == try_as_number(value)
            IN  IF r.ok THEN [ok |-> TRUE, atom |-> Sum_add(method, r.n)]
                ELSE [ok |-> FALSE, atom |-> method]
      [] method.kind = "Welford" ->
            LET r == try_as_f64(value)
            IN  IF r.ok THEN [ok |-> TRUE, atom |-> Welford_add(method, r.f)]
                ELSE [ok |-> FALSE, atom |-> method]

\* The Sum arm panics where sum.add overflows in a build that checks.
ProcessPanics(method, value) ==
    /\ method.kind = "Sum"
    /\ try_as_number(value).ok
    /\ Sum_add_panics(method, try_as_number(value).n)

\* The None arm: only Count is expected; any other atom reaches
\* unreachable!(), reported as panic.
ProcessNone(method) ==
    IF method.kind = "Count"
    THEN [ok |-> TRUE, panic |-> FALSE, atom |-> Count_add(method)]
    ELSE [ok |-> FALSE, panic |-> TRUE, atom |-> method]

\* The loop of process_value from atom i on: the atoms before the one that
\* fails keep their update, the failing atom and those after are untouched.
\* seen lists, in order, the positions of the atoms whose arm has run.
RECURSIVE ProcessFrom(_, _, _, _, _)
ProcessFrom(methods, i, index, value_opt, seen) ==
    IF i > Len(methods)
    THEN [ok |-> TRUE, panic |-> FALSE, methods |-> methods, seen |-> seen]
    ELSE IF IsNone(value_opt)
    THEN LET r == ProcessNone(methods[i])
         IN  IF r.ok
             THEN ProcessFrom([methods EXCEPT ![i] = r.atom], i + 1, index, value_opt,
                              Append(seen, i))
             ELSE [ok |-> FALSE, panic |-> TRUE, methods |-> methods, seen |-> seen]
    ELSE IF ProcessPanics(methods[i], Unwrap(value_opt))
    THEN [ok |-> FALSE, panic |-> TRUE, methods |-> methods, seen |-> seen]
    ELSE LET r == ProcessSome(methods[i], index, Unwrap(value_opt))
         IN  IF r.ok
             THEN ProcessFrom([methods EXCEPT ![i] = r.atom], i + 1, index, value_opt,
                              Append(seen, i))
             ELSE [ok |-> FALSE, panic |-> FALSE, methods |-> methods, seen |-> seen]

\* CompositeAggregator::process_value: [ok, panic, aggregator, seen].
\* What process_value hands back from the outcome of its loop.
ProcessResult(r) ==
    [ok |-> r.ok, panic |-> r.panic, aggregator |-> [methods |-> r.methods],
     seen |-> r.seen]
CompositeAggregator_process_value(c, index, value_opt) ==
    ProcessResult(ProcessFrom(c.methods, 1, index, value_opt, << >>))

CompositeAggregator_finalize(c) ==
    [methods |-> [i \in 1..Len(c.methods) |-> Aggregator_finalize(c.methods[i])]]

\* Aggregator::get_final_value; a pair (atom, method) outside the table
\* reaches unreachable!(), modelled as the String "<unreachable>".
Aggregator_get_final_value(a, method) ==
    CASE a.kind = "AllAny" /\ method = "All" -> BooleanValue(a.all)
      [] a.kind = "AllAny" /\ method = "Any" -> BooleanValue(a.any)
      [] a.kind = "Frequencies" /\ method = "Cardinality" ->
            NumberValue(Integer(Frequencies_cardinality(a)))
      [] a.kind = "Count" /\ method = "Count" -> NumberValue(Integer(Count_get(a)))
      [] a.kind = "FirstLast" /\ method = "First" -> ValueFromOptValue(FirstLast_first(a))
      [] a.kind = "FirstLast" /\ method = "Last" -> ValueFromOptValue(FirstLast_last(a))
      [] a.kind = "LexicographicExtent" /\ method = "LexFirst" ->
            ValueFromOptString(LexicographicExtent_first(a))
      [] a.kind = "LexicographicExtent" /\ method = "LexLast" ->
            ValueFromOptString(LexicographicExtent_last(a))
      [] a.kind = "Extent" /\ method = "Min" -> ValueFromOptNumber(Extent_min(a))
      [] a.kind = "Welford" /\ method = "Mean" -> ValueFromOptF64(Welford_mean(a))
      [] a.kind = "Numbers" /\ IsMedian(method) ->
            ValueFromOptNumber(Numbers_median(a, MedianTypeOf(method)))
      [] a.kind = "Extent" /\ method = "Max" -> ValueFromOptNumber(Extent_max(a))
      [] a.kind = "Frequencies" /\ method = "Mode" -> ValueFromOptString(Frequencies_mode(a))
      [] a.kind = "Sum" /\ method = "Sum" -> NumberValue(Sum_get(a))
      [] a.kind = "Welford" /\ method = "VarPop" -> ValueFromOptF64(Welford_variance(a))
      [] a.kind = "Welford" /\ method = "VarSample" ->
            ValueFromOptF64(Welford_sample_variance(a))
      [] a.kind = "Welford" /\ method = "StddevPop" -> Welford_stdev(a)
      [] a.kind = "Welford" /\ method = "StddevSample" -> Welford_sample_stdev(a)
      [] OTHER -> StringValue("<unreachable>")

\* handle counts from 0.
CompositeAggregator_get_final_value(c, handle, method) ==
    Aggregator_get_final_value(c.methods[handle + 1], method)

----------------------------------------------------------------------------
(* Concretization of a parsed aggregation list *)

\* The columns of the header record the program is parsed against.
HeaderNames == {"a", "b"}

\* An argument expression is named by its canonical text; here every
\* expression is a column identifier.
\* parser::Aggregation == [func_name, agg_name, expr_key, args]

\* An arity check that only rejects more than one argument.
M_validate_aggregation_function_arity(aggregation) ==
    IF Len(aggregation.args) > 1 THEN "InvalidArity" ELSE ""

\* An arity check that treats count like every other function.
M_CountArity(aggregation) ==
    IF Len(aggregation.args) # 1 THEN "InvalidArity" ELSE ""

\* "" is Ok(()), otherwise the ConcretizationError kind.
validate_aggregation_function_arity(aggregation) ==
    LET arity == Len(aggregation.args)
    IN  IF aggregation.func_name = "count"
        THEN (IF ~(arity \in 0..1) THEN "InvalidArity" ELSE "")
        ELSE (IF arity # 1 THEN "InvalidArity" ELSE "")

\* interpreter::concretize_expression: an identifier binds to a column of the
\* headers or is rejected.
concretize_expression(arg) ==
    IF arg \in HeaderNames
    THEN [ok |-> TRUE, expr |-> arg]
    ELSE [ok |-> FALSE, expr |-> arg]

\* A loop body that parses the function name before it looks at the
\* arguments.
M_ConcretizeOne(aggregation) ==
    LET arityErr == validate_aggregation_function_arity(aggregation)
        args == aggregation.args
        badArgs == {i \in 1..Len(args) : ~concretize_expression(args[i]).ok}
        method == ConcreteAggregationMethod_parse(aggregation.func_name)
        concrete == [agg_name |-> aggregation.agg_name,
                     method |-> method,
                     expr |-> IF Len(args) >= 1
                              THEN Some(concretize_expression(args[1]).expr)
                              ELSE None,
                     expr_key |-> aggregation.expr_key]
    IN  IF method = ""
        THEN [err |-> "UnknownFunction", name |-> aggregation.func_name, agg |-> concrete]
        ELSE IF arityErr # ""
        THEN [err |-> arityErr, name |-> aggregation.func_name, agg |-> concrete]
        ELSE IF badArgs # {}
        THEN [err |-> "UnknownIdentifier",
              name |-> args[CHOOSE i \in badArgs : \A j \in badArgs : i <= j],
              agg |-> concrete]
        ELSE [err |-> "", name |-> "", agg |-> concrete]

\* The body of the loop of concretize_aggregations for one aggregation:
\* [err, name, agg], err "" when the aggregation was pushed; name is what the
\* error carries (the function name, or the identifier that did not resolve).
ConcretizeOne(aggregation) ==
    LET arityErr == validate_aggregation_function_arity(aggregation)
        args == aggregation.args
        badArgs == {i \in 1..Len(args) : ~concretize_expression(args[i]).ok}
        method == ConcreteAggregationMethod_parse(aggregation.func_name)
        concrete == [agg_name |-> aggregation.agg_name,
                     method |-> method,
                     expr |-> IF Len(args) >= 1
                              THEN Some(concretize_expression(args[1]).expr)
                              ELSE None,
                     expr_key |-> aggregation.expr_key]
    IN  IF arityErr # ""
        THEN [err |-> arityErr, name |-> aggregation.func_name, agg |-> concrete]
        ELSE IF badArgs # {}
        THEN [err |-> "UnknownIdentifier",
              name |-> args[CHOOSE i \in badArgs : \A j \in badArgs : i <= j],
              agg |-> concrete]
        ELSE IF method = ""
        THEN [err |-> "UnknownFunction", name |-> aggregation.func_name, agg |-> concrete]
        ELSE [err |-> "", name |-> "", agg |-> concrete]

\* concretize_aggregations: [err, name, aggs]; the first failing aggregation
\* returns its error (with the name it carries).
RECURSIVE ConcretizeFrom(_, _, _)
ConcretizeFrom(aggregations, i, done) ==
    IF i > Len(aggregations) THEN [err |-> "", name |-> "", aggs |-> done]
    ELSE LET r == ConcretizeOne(aggregations[i])
         IN  IF r.err # ""
             THEN [err |-> r.err, name |-> r.name, aggs |-> << >>]
             ELSE ConcretizeFrom(aggregations, i + 1, Append(done, r.agg))

concretize_aggregations(aggregations) == ConcretizeFrom(aggregations, 1, << >>)

\* prepare: code is [parses, aggs], what parse_aggregations makes of the
\* source text.
prepare(code) ==
    IF ~code.parses
    THEN [err |-> "ParseError", name |-> "", aggs |-> << >>]
    ELSE concretize_aggregations(code.aggs)

----------------------------------------------------------------------------
(* The planner *)

EmptyPlanner == [execution_plan |-> << >>, output_plan |-> << >>]

\* A unit search that only looks at the unit pushed last.
M_FindUnit(plan, agg) ==
    IF plan.execution_plan # << >>
       /\ plan.execution_plan[Len(plan.execution_plan)].expr_key = agg.expr_key
    THEN Len(plan.execution_plan) - 1
    ELSE -1

\* A unit search that takes the first unit whatever its key.
M_FindFirstUnit(plan, agg) ==
    IF plan.execution_plan # << >> THEN 0 ELSE -1

\* execution_plan.iter().position(|unit| unit.expr_key == agg.expr_key)
FindUnit(plan, agg) ==
    LET HasKey(unit) == unit.expr_key = agg.expr_key
    IN  Position(plan.execution_plan, HasKey)

\* An output unit that drops the index add_method returned.
M_OutputUnit(expr_index, aggregator_index, agg) ==
    [expr_index |-> expr_index,
     aggregator_index |-> 0,
     agg_name |-> agg.agg_name,
     agg_method |-> agg.method]

\* PlannerOutputUnit { expr_index, aggregator_index, agg_name, agg_method }
OutputUnit(expr_index, aggregator_index, agg) ==
    [expr_index |-> expr_index,
     aggregator_index |-> aggregator_index,
     agg_name |-> agg.agg_name,
     agg_method |-> agg.method]

\* The body of the loop of From<ConcreteAggregations>: the plans after agg.
PlanOne(plan, agg) ==
    LET expr_index == FindUnit(plan, agg)
    IN  IF expr_index # -1
        THEN LET unit == plan.execution_plan[expr_index + 1]
                 r == CompositeAggregator_add_method(unit.aggregator_blueprint, agg.method)
             IN  [execution_plan |->
                     [plan.execution_plan EXCEPT ![expr_index + 1] =
                         [unit EXCEPT !.aggregator_blueprint = r.aggregator]],
                  output_plan |->
                     Append(plan.output_plan, OutputUnit(expr_index, r.idx, agg))]
        ELSE LET new_index == Len(plan.execution_plan)
                 r == CompositeAggregator_add_method(CompositeAggregator_new, agg.method)
             IN  [execution_plan |->
                     Append(plan.execution_plan,
                            [expr_key |-> agg.expr_key,
                             expr |-> agg.expr,
                             aggregator_blueprint |-> r.aggregator]),
                  output_plan |->
                     Append(plan.output_plan, OutputUnit(new_index, r.idx, agg))]

RECURSIVE PlanFrom(_, _, _)
PlanFrom(aggregations, i, plan) ==
    IF i > Len(aggregations) THEN plan
    ELSE PlanFrom(aggregations, i + 1, PlanOne(plan, aggregations[i]))

\* impl From<ConcreteAggregations> for ConcreteAggregationPlanner
ConcreteAggregationPlanner_from(aggregations) == PlanFrom(aggregations, 1, EmptyPlanner)

\* An instantiation that clones the blueprints in reverse order.
M_instantiate_aggregators(p) ==
    [i \in 1..Len(p.execution_plan) |->
        p.execution_plan[Len(p.execution_plan) + 1 - i].aggregator_blueprint]

instantiate_aggregators(p) ==
    [i \in 1..Len(p.execution_plan) |-> p.execution_plan[i].aggregator_blueprint]

Planner_headers(p) ==
    [i \in 1..Len(p.output_plan) |-> p.output_plan[i].agg_name]

Planner_results(p, aggs) ==
    [i \in 1..Len(p.output_plan) |->
        CompositeAggregator_get_final_value(
            aggs[p.output_plan[i].expr_index + 1],
            p.output_plan[i].aggregator_index,
            p.output_plan[i].agg_method)]

\* results() panics where the median of an output unit does.
Planner_results_panics(p, aggs) ==
    \E i \in 1..Len(p.output_plan) :
        /\ IsMedian(p.output_plan[i].agg_method)
        /\ Numbers_median_panics(
              aggs[p.output_plan[i].expr_index + 1]
                  .methods[p.output_plan[i].aggregator_index + 1],
              MedianTypeOf(p.output_plan[i].agg_method))

----------------------------------------------------------------------------
(* The driver *)

\* What eval_expr returns on a record for an expression: the record gives
\* the outcome of every expression evaluated on it.
EvalError == [ok |-> FALSE, v |-> NoneValue]
EvalOk(v) == [ok |-> TRUE, v |-> v]
eval_expr(expr, record) == record[expr]

\* What one turn of the loop did: the unit it took (counted from 1), whether
\* it called eval_expr, whether the unit went through, and the atoms whose
\* arm ran.
Turn(i, evaluated, ok, seen) ==
    [unit |-> i, evaluated |-> evaluated, ok |-> ok, atoms |-> seen]

\* The loop of run_with_record_on_aggregators from unit i on:
\* [ok, panic, aggregators, trace]. The units before the failing one keep
\* their updates, and so do the atoms of the failing unit placed before the
\* atom that fails. trace lists the turns of the loop in the order taken.
RECURSIVE RunFrom(_, _, _, _, _, _)
RunFrom(p, aggs, i, index, record, trace) ==
    IF i > Len(p.execution_plan) \/ i > Len(aggs)
    THEN [ok |-> TRUE, panic |-> FALSE, aggregators |-> aggs, trace |-> trace]
    ELSE LET unit == p.execution_plan[i]
             evaluated == IF IsNone(unit.expr) THEN EvalOk(NoneValue)
                          ELSE eval_expr(Unwrap(unit.expr), record)
             value == IF IsNone(unit.expr) THEN None ELSE Some(evaluated.v)
         IN  IF ~evaluated.ok
             THEN [ok |-> FALSE, panic |-> FALSE, aggregators |-> aggs,
                   trace |-> Append(trace, Turn(i, TRUE, FALSE, << >>))]
             ELSE LET r == CompositeAggregator_process_value(aggs[i], index, value)
                      next == [aggs EXCEPT ![i] = r.aggregator]
                      turn == Turn(i, ~IsNone(unit.expr), r.ok, r.seen)
                  IN  IF ~r.ok
                      THEN [ok |-> FALSE, panic |-> r.panic, aggregators |-> next,
                            trace |-> Append(trace, turn)]
                      ELSE RunFrom(p, next, i + 1, index, record, Append(trace, turn))

\* A driver that walks the execution plan twice for one record.
M_run_with_record_on_aggregators(p, aggs, index, record) ==
    RunFrom(p, RunFrom(p, aggs, 1, index, record, << >>).aggregators, 1, index, record,
            RunFrom(p, aggs, 1, index, record, << >>).trace)

run_with_record_on_aggregators(p, aggs, index, record) ==
    RunFrom(p, aggs, 1, index, record, << >>)

\* AggregationProgram::parse: [err, name, planner, aggregators].
AggregationProgram_parse(code) ==
    LET concrete == prepare(code)
        p == ConcreteAggregationPlanner_from(concrete.aggs)
    IN  IF concrete.err # ""
        THEN [err |-> concrete.err, name |-> concrete.name,
              planner |-> EmptyPlanner, aggregators |-> << >>]
        ELSE [err |-> "", name |-> "", planner |-> p,
              aggregators |-> instantiate_aggregators(p)]

AggregationProgram_clear(aggs) ==
    [i \in 1..Len(aggs) |-> CompositeAggregator_clear(aggs[i])]

\* A finalize that resets the accumulators once their values are read.
M_AggregationProgram_finalize(p, aggs) ==
    LET finalized == [i \in 1..Len(aggs) |-> CompositeAggregator_finalize(aggs[i])]
        values == Planner_results(p, finalized)
    IN  [aggregators |-> AggregationProgram_clear(finalized),
         record |-> [i \in 1..Len(values) |-> serialize_as_bytes(values[i])]]

\* AggregationProgram::finalize: [aggregators, record].
AggregationProgram_finalize(p, aggs) ==
    LET finalized == [i \in 1..Len(aggs) |-> CompositeAggregator_finalize(aggs[i])]
        values == Planner_results(p, finalized)
    IN  [aggregators |-> finalized,
         record |-> [i \in 1..Len(values) |-> serialize_as_bytes(values[i])]]

\* GroupAggregationProgram::parse: [err, name, planner, groups].
GroupAggregationProgram_parse(code) ==
    LET concrete == prepare(code)
    IN  IF concrete.err # ""
        THEN [err |-> concrete.err, name |-> concrete.name,
              planner |-> EmptyPlanner, groups |-> [g \in {} |-> << >>]]
        ELSE [err |-> "", name |-> "",
              planner |-> ConcreteAggregationPlanner_from(concrete.aggs),
              groups |-> [g \in {} |-> << >>]]

\* An insertion that clones the aggregators of a group already present.
M_EntryOrInsert(p, grps, group) ==
    [g \in (DOMAIN grps) \cup {group} |->
        IF g \in DOMAIN grps THEN grps[g]
        ELSE IF DOMAIN grps = {} THEN instantiate_aggregators(p)
        ELSE grps[CHOOSE k \in DOMAIN grps : TRUE]]

\* groups.entry(group).or_insert_with(|| planner.instantiate_aggregators())
EntryOrInsert(p, grps, group) ==
    [g \in (DOMAIN grps) \cup {group} |->
        IF g \in DOMAIN grps THEN grps[g] ELSE instantiate_aggregators(p)]

\* The tail of GroupAggregationProgram::run_with_record: the entry keeps what
\* the run left in it, success or not.
GroupStore(entered, group, r) ==
    [ok |-> r.ok, panic |-> r.panic, trace |-> r.trace,
     groups |-> [entered EXCEPT ![group] = r.aggregators]]

\* The run on the aggregators of the entry.
GroupRunEntered(p, entered, group, index, record) ==
    GroupStore(entered, group,
               run_with_record_on_aggregators(p, entered[group], index, record))

\* GroupAggregationProgram::run_with_record: [ok, panic, groups].
GroupAggregationProgram_run_with_record(p, grps, group, index, record) ==
    GroupRunEntered(p, EntryOrInsert(p, grps, group), group, index, record)

\* GroupAggregationProgram::into_byte_records: group -> ByteRecord.
GroupAggregationProgram_into_byte_records(p, grps) ==
    [g \in DOMAIN grps |-> AggregationProgram_finalize(p, grps[g]).record]

----------------------------------------------------------------------------
(* The inputs of the model *)

\* The function names a source may use: the known ones and an unknown one.
KnownFuncNames ==
    {"all", "any", "cardinality", "count", "first", "last", "lex_first",
     "lex_last", "min", "max", "avg", "mean", "median", "median_high",
     "median_low", "mode", "var", "var_pop", "var_sample", "stddev",
     "stddev_pop", "stddev_sample", "sum"}
Aliases == {"avg", "var", "stddev"}
FuncNames == KnownFuncNames \cup {"nope"}

\* What parse_aggregations gives for the call f(args): the expression key is
\* the canonical text of the first argument, the name is synthesized.
ExprKeyOf(args) == IF args = << >> THEN "" ELSE args[1]
Call(f, args) ==
    [func_name |-> f,
     agg_name |-> f \o "(" \o ExprKeyOf(args) \o ")",
     expr_key |-> ExprKeyOf(args),
     args |-> args]

SeqsUpTo(S, n) == UNION {[1..k -> S] : k \in 0..n}

Unparsable == [parses |-> FALSE, aggs |-> << >>]
Parsed(aggs) == [parses |-> TRUE, aggs |-> aggs]

\* The sources of the two streaming specifications read one column; zz is no
\* column of the headers.
ArgLists == {<< >>, << "a" >>, << "zz" >>, << "a", "a" >>}
Calls == {Call(f, args) : f \in FuncNames \ Aliases, args \in ArgLists}
Sources == {Unparsable} \cup {Parsed(l) : l \in SeqsUpTo(Calls, MaxAggs)}

\* The sources of the planner-only specification: both columns, every name.
PlanArgLists == {<< >>, << "a" >>, << "b" >>}
PlanCalls == {Call(f, args) : f \in FuncNames, args \in PlanArgLists}
PlanSources == {Unparsable} \cup {Parsed(l) : l \in SeqsUpTo(PlanCalls, MaxPlanAggs)}

\* What an expression evaluates to on a record.
Outcomes == {EvalOk(StringValue(s)) : s \in Strings} \cup {EvalError}

\* The expressions a plan evaluates.
ExprsOf(p) ==
    {Unwrap(p.execution_plan[i].expr) :
        i \in {j \in 1..Len(p.execution_plan) : ~IsNone(p.execution_plan[j].expr)}}

Records(p) == [ExprsOf(p) -> Outcomes]
Indices == 0..MaxIndex
GroupKeys == {"x", "y"}

NoCall == [op |-> "", ok |-> TRUE, ret |-> << >>]

----------------------------------------------------------------------------
(* AggregationProgram *)

Init ==
    /\ pc = "start"
    /\ source = Unparsable
    /\ parseError = ""
    /\ planner = EmptyPlanner
    /\ aggregators = << >>
    /\ groups = [g \in {} |-> << >>]
    /\ lastCall = NoCall
    /\ history = << >>
    /\ cleared = FALSE
    /\ ghistory = [g \in {} |-> << >>]
    /\ arith = Narrow
    /\ repeats = 0

ParseFrom(sources) ==
    /\ pc = "start"
    /\ \E code \in sources :
        LET r == AggregationProgram_parse(code)
        IN  /\ source' = code
            /\ parseError' = r.err
            /\ planner' = r.planner
            /\ aggregators' = r.aggregators
            /\ pc' = IF r.err = "" THEN "ready" ELSE "failed"
            /\ lastCall' = [op |-> "parse", ok |-> r.err = "", ret |-> << r.name >>]
    /\ UNCHANGED << groups, history, cleared, ghistory, arith,
                    repeats >>

Parse == ParseFrom(Sources)

RunWithRecord ==
    /\ pc = "ready"
    /\ Len(history) < MaxRecords
    /\ \E index \in Indices, record \in Records(planner) :
        LET r == run_with_record_on_aggregators(planner, aggregators, index, record)
        IN  /\ aggregators' = r.aggregators
            /\ pc' = IF r.panic THEN "panicked" ELSE "ready"
            /\ lastCall' = [op |-> "run_with_record", ok |-> r.ok, ret |-> r.trace]
            /\ history' = Append(history, [record |-> record, ok |-> r.ok])
    /\ UNCHANGED << source, parseError, planner, groups, cleared, ghistory, arith,
                    repeats >>

Clear ==
    /\ pc = "ready"
    /\ aggregators' = AggregationProgram_clear(aggregators)
    /\ lastCall' = [op |-> "clear", ok |-> TRUE, ret |-> << >>]
    /\ history' = << >>
    /\ cleared' = (cleared \/ history # << >>)
    /\ UNCHANGED << pc, source, parseError, planner, groups, ghistory, arith,
                    repeats >>

Finalize ==
    /\ pc = "ready"
    /\ LET r == AggregationProgram_finalize(planner, aggregators)
       IN  /\ aggregators' = r.aggregators
           /\ pc' = IF Planner_results_panics(planner, r.aggregators)
                    THEN "panicked" ELSE "ready"
           /\ lastCall' = IF Planner_results_panics(planner, r.aggregators)
                          THEN [op |-> "finalize", ok |-> FALSE, ret |-> << >>]
                          ELSE [op |-> "finalize", ok |-> TRUE, ret |-> r.record]
    /\ UNCHANGED << source, parseError, planner, groups, history, cleared,
                    ghistory, arith,
                    repeats >>

Next == Parse \/ RunWithRecord \/ Clear \/ Finalize

Spec == Init /\ [][Next]_vars

----------------------------------------------------------------------------
(* The planner alone, over longer aggregation lists *)

PlanParse == ParseFrom(PlanSources)

NextPlan == PlanParse

SpecPlan == Init /\ [][NextPlan]_vars

----------------------------------------------------------------------------
(* GroupAggregationProgram *)

\* Records submitted so far, all groups together.
RECURSIVE SumLens(_, _)
SumLens(f, keys) ==
    IF keys = {} THEN 0
    ELSE LET k == CHOOSE x \in keys : TRUE
         IN  Len(f[k]) + SumLens(f, keys \ {k})

GroupSubmitted == SumLens(ghistory, DOMAIN ghistory)

GroupParse ==
    /\ pc = "start"
    /\ \E code \in Sources :
        LET r == GroupAggregationProgram_parse(code)
        IN  /\ source' = code
            /\ parseError' = r.err
            /\ planner' = r.planner
            /\ groups' = r.groups
            /\ pc' = IF r.err = "" THEN "ready" ELSE "failed"
            /\ lastCall' = [op |-> "parse", ok |-> r.err = "", ret |-> << r.name >>]
    /\ UNCHANGED << aggregators, history, cleared, ghistory, arith,
                    repeats >>

GroupRunWithRecord ==
    /\ pc = "ready"
    /\ GroupSubmitted < MaxGroupRecords
    /\ \E group \in GroupKeys, index \in Indices, record \in Records(planner) :
        LET r == GroupAggregationProgram_run_with_record(planner, groups, group,
                                                         index, record)
        IN  /\ groups' = r.groups
            /\ pc' = IF r.panic THEN "panicked" ELSE "ready"
            /\ lastCall' = [op |-> "run_with_record", ok |-> r.ok, ret |-> r.trace]
            /\ ghistory' =
                [g \in (DOMAIN ghistory) \cup {group} |->
                    IF g = group
                    THEN Append(IF g \in DOMAIN ghistory THEN ghistory[g] ELSE << >>,
                                record)
                    ELSE ghistory[g]]
    /\ UNCHANGED << source, parseError, planner, aggregators, history, cleared, arith,
                    repeats >>

\* into_byte_records consumes the program.
IntoByteRecords ==
    /\ pc = "ready"
    /\ pc' = "drained"
    /\ lastCall' = [op |-> "into_byte_records", ok |-> TRUE,
                    ret |-> GroupAggregationProgram_into_byte_records(planner, groups)]
    /\ UNCHANGED << source, parseError, planner, aggregators, groups, history,
                    cleared, ghistory, arith,
                    repeats >>

NextGroup == GroupParse \/ GroupRunWithRecord \/ IntoByteRecords

SpecGroup == Init /\ [][NextGroup]_vars

----------------------------------------------------------------------------
(* AggregationProgram on fixed sources, over longer streams of typed values *)

\* The values an expression takes in this specification: Integers, a Float
\* and a String that is no number; strings, the empty one among them.
StatNumbers == {Integer(1), Integer(2), Integer(6), Integer(7),
                Float([num |-> 3, den |-> 2])}
NumOutcomes == {EvalOk(NumberValue(n)) : n \in StatNumbers}
                   \cup {EvalOk(StringValue("x"))}
StrOutcomes == {EvalOk(StringValue(s)) : s \in Strings}

NumSource ==
    Parsed(<< Call("median_low", << "a" >>), Call("median", << "a" >>),
              Call("median_high", << "a" >>), Call("min", << "a" >>),
              Call("max", << "a" >>) >>)
StrSource ==
    Parsed(<< Call("lex_first", << "a" >>), Call("lex_last", << "a" >>),
              Call("mode", << "a" >>), Call("cardinality", << "a" >>),
              Call("count", << "a" >>), Call("first", << "a" >>),
              Call("last", << "a" >>) >>)
MomentSource ==
    Parsed(<< Call("sum", << "a" >>), Call("mean", << "a" >>),
              Call("var_pop", << "a" >>), Call("var_sample", << "a" >>),
              Call("stddev_pop", << "a" >>), Call("stddev_sample", << "a" >>) >>)
StatSources == {NumSource, StrSource, MomentSource}

StatRecords(code) ==
    [{"a"} -> IF code = StrSource THEN StrOutcomes ELSE NumOutcomes]

StatParse == ParseFrom(StatSources)

StatRunWithRecord ==
    /\ pc = "ready"
    /\ Len(history) < MaxStatRecords
    /\ \E index \in Indices, record \in StatRecords(source) :
        LET r == run_with_record_on_aggregators(planner, aggregators, index, record)
        IN  /\ aggregators' = r.aggregators
            /\ pc' = IF r.panic THEN "panicked" ELSE "ready"
            /\ lastCall' = [op |-> "run_with_record", ok |-> r.ok, ret |-> r.trace]
            /\ history' = Append(history, [record |-> record, ok |-> r.ok])
    /\ UNCHANGED << source, parseError, planner, groups, cleared, ghistory, arith,
                    repeats >>

NextStats == StatParse \/ StatRunWithRecord \/ Clear \/ Finalize

SpecStats == Init /\ [][NextStats]_vars

----------------------------------------------------------------------------
(* AggregationProgram on Integers near the ends of the 64-bit range *)

\* The Integers of this specification are multiples of 2^52, counted in
\* units of 2^52: 2^63 is 2^11 units. Both builds are followed.
WideAriths == {[limit |-> 2 ^ 11, checks |-> c] : c \in BOOLEAN}

\* 2^52, 2^62 and -2^62.
WideOne == Integer(1)
WideNumbers == {WideOne, Integer(2 ^ 10), Integer(-(2 ^ 10))}
WideOutcomes == {EvalOk(NumberValue(n)) : n \in WideNumbers}

WideSumSource == Parsed(<< Call("count", << "a" >>), Call("sum", << "a" >>) >>)
WideMedianSource ==
    Parsed(<< Call("median_low", << "a" >>), Call("median", << "a" >>),
              Call("median_high", << "a" >>) >>)
WideSources == {WideSumSource, WideMedianSource}

WideParse ==
    /\ pc = "start"
    /\ \E code \in WideSources, build \in WideAriths :
        LET r == AggregationProgram_parse(code)
        IN  /\ source' = code
            /\ arith' = build
            /\ parseError' = r.err
            /\ planner' = r.planner
            /\ aggregators' = r.aggregators
            /\ pc' = IF r.err = "" THEN "ready" ELSE "failed"
            /\ lastCall' = [op |-> "parse", ok |-> r.err = "", ret |-> << r.name >>]
    /\ UNCHANGED << groups, history, cleared, ghistory, repeats >>

\* Every record so far carried 2^52.
OnlyOnes(h) ==
    {h[i].record["a"] : i \in 1..Len(h)} \subseteq {EvalOk(NumberValue(WideOne))}

\* Any short stream, kept in history, and the long stream of 2^52 repeated
\* into sum, of which history keeps the first MaxWideRecords records and
\* repeats counts the others.
WideRunWithRecord ==
    /\ pc = "ready"
    /\ \E index \in Indices, record \in [{"a"} -> WideOutcomes] :
        /\ \/ Len(history) < MaxWideRecords
           \/ /\ source = WideSumSource
              /\ Len(history) + repeats < MaxLongRecords
              /\ OnlyOnes(history)
              /\ record["a"] = EvalOk(NumberValue(WideOne))
        /\ LET r == run_with_record_on_aggregators(planner, aggregators, index, record)
           IN  /\ aggregators' = r.aggregators
               /\ pc' = IF r.panic THEN "panicked" ELSE "ready"
               /\ lastCall' = [op |-> "run_with_record", ok |-> r.ok, ret |-> r.trace]
               /\ history' = IF Len(history) < MaxWideRecords
                             THEN Append(history, [record |-> record, ok |-> r.ok])
                             ELSE history
               /\ repeats' = IF Len(history) < MaxWideRecords THEN repeats
                             ELSE repeats + 1
    /\ UNCHANGED << source, parseError, planner, groups, cleared, ghistory, arith >>

NextWide == WideParse \/ WideRunWithRecord \/ Finalize

SpecWide == Init /\ [][NextWide]_vars

----------------------------------------------------------------------------
(* A fresh single-group program fed a record sequence *)

\* The aggregators of a program after run_with_record on records[i..], rows
\* numbered from 0; a failing record leaves what it updated before failing.
RECURSIVE FeedFrom(_, _, _, _)
FeedFrom(p, aggs, records, i) ==
    IF i > Len(records) THEN aggs
    ELSE FeedFrom(p, run_with_record_on_aggregators(p, aggs, i - 1, records[i]).aggregators,
                  records, i + 1)

\* What finalize returns on a freshly parsed program of source code after
\* it was fed records.
FreshOutput(code, records) ==
    LET prog == AggregationProgram_parse(code)
        fed == FeedFrom(prog.planner, prog.aggregators, records, 1)
    IN  AggregationProgram_finalize(prog.planner, fed).record

RecordsOf(h) == [i \in 1..Len(h) |-> h[i].record]
AllOk(h) == \A i \in 1..Len(h) : h[i].ok

----------------------------------------------------------------------------
(* C1 *)

\* C1: whenever run_with_record returns an evaluation error, the state of
\* every atom of every execution unit is the same as before the call.
C1_FailedRunLeavesAtomsUntouched ==
    [][(lastCall'.op = "run_with_record" /\ ~lastCall'.ok)
        => aggregators' = aggregators]_vars

----------------------------------------------------------------------------
(* C2 *)

\* The i-th aggregation alone, fed the same records.
AloneOutput(i) == FreshOutput(Parsed(<< source.aggs[i] >>), RecordsOf(history))[1]

\* C2: for an accepted list L the output plan and headers() have |L| entries
\* in the order of L (name, method, unit of the expression key, atom of the
\* method's kind); finalize returns |L| fields, and when every record was
\* accepted field i is what the i-th aggregation alone gives on the records.
C2_OutputFollowsList ==
    pc = "ready" =>
        LET L == source.aggs
            out == planner.output_plan
        IN  /\ Len(out) = Len(L)
            /\ Len(Planner_headers(planner)) = Len(L)
            /\ \A i \in 1..Len(L) :
                LET unit == planner.execution_plan[out[i].expr_index + 1]
                    atom == aggregators[out[i].expr_index + 1]
                                .methods[out[i].aggregator_index + 1]
                IN  /\ Planner_headers(planner)[i] = L[i].agg_name
                    /\ out[i].agg_method = ConcreteAggregationMethod_parse(L[i].func_name)
                    /\ unit.expr_key = L[i].expr_key
                    /\ atom.kind = KindOfMethod(out[i].agg_method)
            /\ lastCall.op = "finalize" =>
                /\ Len(lastCall.ret) = Len(L)
                /\ AllOk(history) =>
                    \A i \in 1..Len(L) : lastCall.ret[i] = AloneOutput(i)

\* finalize has returned two different fields computed from one shared unit
\* after two records.
C2_Witness ==
    /\ pc = "ready"
    /\ lastCall.op = "finalize"
    /\ Len(source.aggs) = 2
    /\ Len(planner.execution_plan) = 1
    /\ Len(history) = 2
    /\ AllOk(history)
    /\ lastCall.ret[1] # lastCall.ret[2]

----------------------------------------------------------------------------
(* C3 *)

\* C3: the group program holds one entry per group key submitted, and
\* into_byte_records yields, for each such key k, the record that a fresh
\* single-group program of the same source returns from finalize after the
\* records submitted with key k, in their order.
C3_GroupsEqualSinglePrograms ==
    /\ pc \in {"ready", "drained"} => DOMAIN groups = DOMAIN ghistory
    /\ lastCall.op = "into_byte_records" =>
        /\ DOMAIN lastCall.ret = DOMAIN ghistory
        /\ \A k \in DOMAIN ghistory :
            lastCall.ret[k] = FreshOutput(source, ghistory[k])

\* Two groups were fed, one of them twice, and their records differ.
C3_Witness ==
    /\ lastCall.op = "into_byte_records"
    /\ DOMAIN ghistory = {"x", "y"}
    /\ Len(ghistory["x"]) = 2
    /\ Len(ghistory["y"]) = 1
    /\ Len(source.aggs) = 2
    /\ lastCall.ret["x"] # lastCall.ret["y"]

----------------------------------------------------------------------------
(* C4 *)

UnitKeys(p) == {p.execution_plan[i].expr_key : i \in 1..Len(p.execution_plan)}
ListKeys(L) == {L[i].expr_key : i \in 1..Len(L)}

\* C4: the execution plan holds exactly one unit per distinct expression key
\* of the list: no two units share an expr_key and every key has a unit.
C4_OneUnitPerKey ==
    pc = "ready" =>
        /\ \A i, j \in 1..Len(planner.execution_plan) :
            planner.execution_plan[i].expr_key = planner.execution_plan[j].expr_key
                => i = j
        /\ UnitKeys(planner) = ListKeys(source.aggs)

\* Three aggregations over two expression keys.
C4_Witness ==
    /\ pc = "ready"
    /\ Len(source.aggs) = 3
    /\ Cardinality(ListKeys(source.aggs)) = 2
    /\ source.aggs[1].expr_key = source.aggs[3].expr_key

----------------------------------------------------------------------------
(* C5 *)

MethodOf(call) == ConcreteAggregationMethod_parse(call.func_name)
SameAggregation(c, d) == MethodOf(c) = MethodOf(d) /\ c.expr_key = d.expr_key

\* The plan of the list without its last call.
PlanOfFront(L) ==
    ConcreteAggregationPlanner_from(
        concretize_aggregations(SubSeq(L, 1, Len(L) - 1)).aggs)

\* C5: when the last call of the list repeats an earlier one (same method,
\* same expression key), the execution plan is that of the list without it
\* and the output plan is that of the list without it plus one entry that
\* points to the unit and atom of the earlier occurrence.
C5_DuplicateAddsOneOutput ==
    (pc = "ready" /\ Len(source.aggs) >= 2) =>
        LET L == source.aggs
            n == Len(L)
            front == PlanOfFront(L)
        IN  \A j \in 1..(n - 1) :
                SameAggregation(L[j], L[n]) =>
                    /\ planner.execution_plan = front.execution_plan
                    /\ planner.output_plan =
                        Append(front.output_plan,
                               [expr_index |-> front.output_plan[j].expr_index,
                                aggregator_index |-> front.output_plan[j].aggregator_index,
                                agg_name |-> L[n].agg_name,
                                agg_method |-> MethodOf(L[n])])

\* The third call repeats the first under another name, behind a call that
\* shares the unit.
C5_Witness ==
    /\ pc = "ready"
    /\ Len(source.aggs) = 3
    /\ SameAggregation(source.aggs[1], source.aggs[3])
    /\ source.aggs[1].agg_name # source.aggs[3].agg_name
    /\ source.aggs[2].expr_key = source.aggs[1].expr_key
    /\ Len(planner.execution_plan[1].aggregator_blueprint.methods) = 2

----------------------------------------------------------------------------
(* C6 *)

IntegerOrEmpty(outcome) ==
    outcome.ok /\ outcome.v.tag = "String" /\ (outcome.v.s = "" \/ ParsesAsNumber(outcome.v.s))

RECURSIVE SumOfCells(_, _)
SumOfCells(h, i) ==
    IF i > Len(h) THEN 0
    ELSE (IF h[i].record["a"].v.s = "" THEN 0 ELSE ParseNumber(h[i].record["a"].v.s).num)
         + SumOfCells(h, i + 1)

SumSource == Parsed(<< Call("sum", << "a" >>) >>)

\* C6: on a stream of cells that are integers or empty, run_with_record
\* succeeds on every record and sum(a) is the sum of the non-empty cells.
C6_SumSkipsEmptyCells ==
    (/\ pc = "ready"
     /\ source = SumSource
     /\ \A i \in 1..Len(history) : IntegerOrEmpty(history[i].record["a"]))
        => /\ AllOk(history)
           /\ Sum_get(aggregators[1].methods[1]) = Integer(SumOfCells(history, 1))

----------------------------------------------------------------------------
(* C7 *)

NonNullish(h, expr) ==
    Cardinality({i \in 1..Len(h) :
                    h[i].record[expr].ok /\ ~is_nullish(h[i].record[expr].v)})

\* What the claim gives for every count of the output plan.
CountsMatch ==
    \A i \in 1..Len(planner.output_plan) :
        LET o == planner.output_plan[i]
            unit == planner.execution_plan[o.expr_index + 1]
            atom == aggregators[o.expr_index + 1].methods[o.aggregator_index + 1]
        IN  o.agg_method = "Count" =>
                Count_get(atom) = IF IsNone(unit.expr) THEN Len(history)
                                  ELSE NonNullish(history, Unwrap(unit.expr))

----------------------------------------------------------------------------
(* C8 *)

\* C8: right after clear() every atom is in the state it has after
\* construction, and whatever was fed before a clear(), finalize returns what
\* a freshly parsed program returns on the records fed since.
C8_ClearGivesFreshProgram ==
    pc = "ready" =>
        /\ lastCall.op = "clear" => aggregators = instantiate_aggregators(planner)
        /\ AggregationProgram_finalize(planner, aggregators).record
              = FreshOutput(source, RecordsOf(history))

\* Records were fed, clear() was called, and records were fed again.
C8_Witness ==
    /\ pc = "ready"
    /\ cleared
    /\ Len(history) = 2
    /\ Len(source.aggs) = 2
    /\ AllOk(history)

----------------------------------------------------------------------------
(* C9 *)

\* C9: a second finalize right after a finalize returns the same record and
\* leaves every atom as the first call left it.
C9_FinalizeIdempotent ==
    lastCall.op = "finalize" =>
        AggregationProgram_finalize(planner, aggregators)
            = [aggregators |-> aggregators, record |-> lastCall.ret]

\* finalize has sorted numbers that were submitted in descending order.
C9_Witness ==
    /\ lastCall.op = "finalize"
    /\ Len(history) = 2
    /\ AllOk(history)
    /\ source = Parsed(<< Call("median_low", << "a" >>) >>)
    /\ history[1].record["a"].v.s = "2"
    /\ history[2].record["a"].v.s = "1"

----------------------------------------------------------------------------
(* C10 *)

BadArity(call) ==
    IF call.func_name = "count" THEN Len(call.args) > 1 ELSE Len(call.args) # 1

\* A source that does not parse, or with a call of an unknown function, of
\* an invalid arity or on an unknown identifier.
Defective(code) ==
    \/ ~code.parses
    \/ \E i \in 1..Len(code.aggs) :
        \/ code.aggs[i].func_name \notin KnownFuncNames
        \/ BadArity(code.aggs[i])
        \/ \E k \in 1..Len(code.aggs[i].args) : code.aggs[i].args[k] \notin HeaderNames

\* C10: parse of a defective source returns an error and constructs no
\* program (no plan, no aggregators), and no record has been submitted.
C10_DefectiveSourceRejected ==
    (pc # "start" /\ Defective(source)) =>
        /\ pc = "failed"
        /\ parseError # ""
        /\ ~lastCall.ok
        /\ planner = EmptyPlanner
        /\ aggregators = << >>
        /\ history = << >>

\* parse has rejected a source whose second call names an unknown function.
C10_Witness ==
    /\ pc = "failed"
    /\ parseError = "UnknownFunction"
    /\ Len(source.aggs) = 2
    /\ source.aggs[2].func_name = "nope"
    /\ lastCall.op = "parse"

----------------------------------------------------------------------------
(* C11 *)

UnknownName(call) == call.func_name \notin KnownFuncNames
BadIdentifier(call) == \E k \in 1..Len(call.args) : call.args[k] \notin HeaderNames
DefectiveCall(call) == UnknownName(call) \/ BadArity(call) \/ BadIdentifier(call)

\* Every call before the i-th is accepted.
FirstDefective(L, i) == \A j \in 1..(i - 1) : ~DefectiveCall(L[j])

\* C11 as stated: every call of an unknown function makes the
\* concretization fail with UnknownFunction carrying that name, whatever its
\* arguments.
C11_UnknownNameGivesUnknownFunction ==
    (pc # "start" /\ source.parses) =>
        \A i \in 1..Len(source.aggs) :
            UnknownName(source.aggs[i]) =>
                /\ parseError = "UnknownFunction"
                /\ lastCall.ret = << source.aggs[i].func_name >>

\* C11 amended: a call of an unknown function before which every call is
\* accepted makes the concretization fail; the error is InvalidArity with
\* the function name when the call does not have exactly one argument,
\* UnknownIdentifier when its argument does not resolve, and otherwise
\* UnknownFunction with the function name.
C11_UnknownNameAfterArityAndArguments ==
    (pc # "start" /\ source.parses) =>
        \A i \in 1..Len(source.aggs) :
            (UnknownName(source.aggs[i]) /\ FirstDefective(source.aggs, i)) =>
                /\ pc = "failed"
                /\ ~lastCall.ok
                /\ IF BadArity(source.aggs[i])
                   THEN /\ parseError = "InvalidArity"
                        /\ lastCall.ret = << source.aggs[i].func_name >>
                   ELSE IF BadIdentifier(source.aggs[i])
                   THEN parseError = "UnknownIdentifier"
                   ELSE /\ parseError = "UnknownFunction"
                        /\ lastCall.ret = << source.aggs[i].func_name >>

\* parse has rejected an unknown function called with one resolvable
\* argument, behind an accepted call.
C11_Witness ==
    /\ pc = "failed"
    /\ lastCall.op = "parse"
    /\ source = Parsed(<< Call("sum", << "a" >>), Call("nope", << "a" >>) >>)
    /\ lastCall.ret = << "nope" >>

----------------------------------------------------------------------------
(* C12 *)

\* C12: the first call of the list that is not accepted is rejected with
\* InvalidArity (carrying its function name) exactly when its number of
\* arguments is wrong: not 0 or 1 for count, not 1 for any other function;
\* a list that is accepted holds no call with a wrong number of arguments.
C12_ArityValidated ==
    (pc # "start" /\ source.parses) =>
        /\ pc = "ready" =>
            \A i \in 1..Len(source.aggs) : ~BadArity(source.aggs[i])
        /\ \A i \in 1..Len(source.aggs) :
            (DefectiveCall(source.aggs[i]) /\ FirstDefective(source.aggs, i)) =>
                /\ BadArity(source.aggs[i]) =>
                    /\ parseError = "InvalidArity"
                    /\ lastCall.ret = << source.aggs[i].func_name >>
                /\ ~BadArity(source.aggs[i]) => parseError # "InvalidArity"

\* parse has accepted count() and rejected the count(a, a) behind it.
C12_Witness ==
    /\ pc = "failed"
    /\ parseError = "InvalidArity"
    /\ lastCall.ret = << "count" >>
    /\ source = Parsed(<< Call("count", << >>), Call("count", << "a", "a" >>) >>)

----------------------------------------------------------------------------
(* C13 *)

\* The numbers of the accepted records, in submission order.
AcceptedNumbers(h) ==
    LET accepted == SelectSeq(h, LAMBDA e : e.ok)
    IN  [i \in 1..Len(accepted) |-> accepted[i].record["a"].v.n]

Occurrences(q, v) == Cardinality({i \in 1..Len(q) : q[i] = v})

\* The ascending arrangement of a sequence of numbers.
Ascending(q) ==
    CHOOSE r \in [1..Len(q) -> {q[i] : i \in 1..Len(q)}] :
        /\ \A v \in {q[i] : i \in 1..Len(q)} : Occurrences(r, v) = Occurrences(q, v)
        /\ \A i \in 1..(Len(q) - 1) : ~NumLess(r[i + 1], r[i])

\* s[i] of the claim, counted from 0.
At0(s, i) == s[i + 1]

MedianLowOf(s) ==
    LET n == Len(s)
    IN  IF n = 0 THEN NoneValue
        ELSE NumberValue(IF n % 2 = 0 THEN At0(s, (n \div 2) - 1) ELSE At0(s, n \div 2))
MedianHighOf(s) ==
    IF Len(s) = 0 THEN NoneValue ELSE NumberValue(At0(s, Len(s) \div 2))
MedianOf(s) ==
    LET n == Len(s)
    IN  IF n = 0 THEN NoneValue
        ELSE IF n % 2 = 1 THEN NumberValue(At0(s, n \div 2))
        ELSE NumberValue(NumDiv(NumAdd(At0(s, (n \div 2) - 1), At0(s, n \div 2)),
                                Float(FOfInt(2))))

\* C13: after finalize, with s the n numbers collected in ascending order,
\* the three medians are absent when n = 0; median_low is s[n/2 - 1] for even
\* n and s[n/2] for odd n, median_high is s[n/2], and median is s[n/2] for odd
\* n and the Float (s[n/2 - 1] + s[n/2]) / 2 for even n, + and / being those
\* of Number.
C13_MedianVariants ==
    (lastCall.op = "finalize" /\ source = NumSource) =>
        LET s == Ascending(AcceptedNumbers(history))
            out == Planner_results(planner, aggregators)
        IN  /\ out[1] = MedianLowOf(s)
            /\ out[2] = MedianOf(s)
            /\ out[3] = MedianHighOf(s)
            /\ \A i \in 1..3 : lastCall.ret[i] = serialize_as_bytes(out[i])

\* finalize on 7, 1, 6, 2 has returned 2, the Float 4 and 6.
C13_Witness ==
    /\ lastCall.op = "finalize"
    /\ source = NumSource
    /\ AcceptedNumbers(history) = << Integer(7), Integer(1), Integer(6), Integer(2) >>
    /\ Planner_results(planner, aggregators)[1] = NumberValue(Integer(2))
    /\ Planner_results(planner, aggregators)[2] = NumberValue(Float(FOfInt(4)))
    /\ Planner_results(planner, aggregators)[3] = NumberValue(Integer(6))

----------------------------------------------------------------------------
(* C14 *)

ValueLessEq(x, y) == ~NumLess(y.n, x.n)

\* C14: whenever finalize returns the three medians of a non-empty stream of
\* numbers, median_low <= median <= median_high.
C14_MediansOrdered ==
    (/\ lastCall.op = "finalize"
     /\ lastCall.ok
     /\ source \in {NumSource, WideMedianSource}
     /\ AcceptedNumbers(history) # << >>)
        => LET out == Planner_results(planner, aggregators)
           IN  /\ ValueLessEq(out[1], out[2])
               /\ ValueLessEq(out[2], out[3])

----------------------------------------------------------------------------
(* C15 *)

\* The strings submitted, in submission order.
SubmittedStrings(h) == [i \in 1..Len(h) |-> h[i].record["a"].v.s]

\* The value with the greatest number of occurrences, the byte-wise
\* greatest among those tied.
ModeOf(q) ==
    IF q = << >> THEN None
    ELSE Some(CHOOSE m \in {q[i] : i \in 1..Len(q)} :
                \A v \in {q[i] : i \in 1..Len(q)} :
                    \/ Occurrences(q, v) < Occurrences(q, m)
                    \/ Occurrences(q, v) = Occurrences(q, m) /\ ~StrLess(m, v))

\* The atom an output unit reads.
AtomOfOutput(i) ==
    aggregators[planner.output_plan[i].expr_index + 1]
        .methods[planner.output_plan[i].aggregator_index + 1]

\* C15: in every iteration order of the map, mode is the value with the
\* maximal count and, among the values tied for it, the lexicographically
\* greatest; it is absent when nothing was added; cardinality is the number
\* of distinct values added.
C15_ModeAndCardinality ==
    (pc = "ready" /\ source = StrSource) =>
        LET q == SubmittedStrings(history)
            out == Planner_results(planner, aggregators)
        IN  /\ \A o \in IterationOrders(AtomOfOutput(3)) :
                Frequencies_mode_iter(AtomOfOutput(3), o) = ModeOf(q)
            /\ out[3] = ValueFromOptString(ModeOf(q))
            /\ out[4] = NumberValue(Integer(Cardinality({q[i] : i \in 1..Len(q)})))

\* Two values are tied for the maximal count and the mode is the greater.
C15_Witness ==
    /\ pc = "ready"
    /\ source = StrSource
    /\ SubmittedStrings(history) = << "x", "1", "1", "x" >>
    /\ Planner_results(planner, aggregators)[3] = StringValue("x")
    /\ Planner_results(planner, aggregators)[4] = NumberValue(Integer(2))

----------------------------------------------------------------------------
(* C16 *)

\* The rows of the history whose value of expr is there and not nullish.
Valued(h, expr) ==
    {i \in 1..Len(h) : h[i].record[expr].ok /\ ~is_nullish(h[i].record[expr].v)}

EarliestValue(h, expr) ==
    IF Valued(h, expr) = {} THEN None
    ELSE Some(h[CHOOSE i \in Valued(h, expr) : \A j \in Valued(h, expr) : i <= j]
                .record[expr].v)
LatestValue(h, expr) ==
    IF Valued(h, expr) = {} THEN None
    ELSE Some(h[CHOOSE i \in Valued(h, expr) : \A j \in Valued(h, expr) : i >= j]
                .record[expr].v)

\* What the claim gives for every first and last of the output plan.
FirstLastMatch ==
    \A i \in 1..Len(planner.output_plan) :
        LET o == planner.output_plan[i]
            expr == planner.execution_plan[o.expr_index + 1].expr
        IN  /\ o.agg_method = "First" =>
                FirstLast_first(AtomOfOutput(i)) = EarliestValue(history, Unwrap(expr))
            /\ o.agg_method = "Last" =>
                FirstLast_last(AtomOfOutput(i)) = LatestValue(history, Unwrap(expr))

----------------------------------------------------------------------------
(* C17 *)

\* The atoms of a kind in the aggregators.
AtomsOfKind(kind) ==
    {aggregators[u].methods[m] :
        << u, m >> \in {x \in (1..Len(aggregators)) \X (1..MaxAggs + MaxPlanAggs + 2) :
                          /\ x[2] <= Len(aggregators[x[1]].methods)
                          /\ aggregators[x[1]].methods[x[2]].kind = kind}}

\* (least, greatest) of a sequence under an order, None on the empty one.
Bounds(q, Less(_, _)) ==
    IF q = << >> THEN None
    ELSE LET S == {q[i] : i \in 1..Len(q)}
         IN  Some(<< CHOOSE v \in S : \A w \in S : ~Less(w, v),
                     CHOOSE v \in S : \A w \in S : ~Less(v, w) >>)

\* C17: the Extent atom holds None if nothing was added and otherwise the
\* least and the greatest number added, the LexicographicExtent atom None or
\* the byte-wise least and greatest string added, and min <= max throughout.
C17_ExtentsHoldBounds ==
    /\ \A e \in AtomsOfKind("Extent") :
            /\ e.extent = Bounds(AcceptedNumbers(history), NumLess)
            /\ ~IsNone(e.extent) =>
                    ~NumLess(Unwrap(Extent_max(e)), Unwrap(Extent_min(e)))
    /\ \A e \in AtomsOfKind("LexicographicExtent") :
            /\ e.extent = Bounds(SubmittedStrings(history), StrLess)
            /\ ~IsNone(e.extent) =>
                    ~StrLess(Unwrap(LexicographicExtent_last(e)),
                             Unwrap(LexicographicExtent_first(e)))

\* The numbers 6, 1, 7, 2 were added: the extent is (1, 7).
C17_Witness ==
    /\ source = NumSource
    /\ AcceptedNumbers(history) = << Integer(6), Integer(1), Integer(7), Integer(2) >>
    /\ AtomsOfKind("Extent") =
          {[kind |-> "Extent", extent |-> Some(<< Integer(1), Integer(7) >>)]}

----------------------------------------------------------------------------
(* C18, C19 *)

\* The numbers submitted, in order.
SubmittedNumbers(h) == [i \in 1..Len(h) |-> h[i].record["a"].v.n]

\* sum over a sequence of numbers from a fresh atom: whether an add
\* panicked, and the accumulator where none did.
RECURSIVE SumRunFrom(_, _, _)
SumRunFrom(q, i, s) ==
    IF i > Len(q) THEN [panic |-> FALSE, current |-> Sum_get(s)]
    ELSE IF Sum_add_panics(s, q[i]) THEN [panic |-> TRUE, current |-> Integer(0)]
    ELSE SumRunFrom(q, i + 1, Sum_add(s, q[i]))
SumRun(q) == SumRunFrom(q, 1, Sum_new)

\* Two partial sums combined by the same addition.
SumCombine(x, y) ==
    IF x.panic \/ y.panic \/ Sum_add_panics([Sum_new EXCEPT !.current = x.current], y.current)
    THEN [panic |-> TRUE, current |-> Integer(0)]
    ELSE [panic |-> FALSE, current |-> NumAdd(x.current, y.current)]

\* What the program made of the stream.
SumOutcome ==
    IF pc = "panicked" THEN [panic |-> TRUE, current |-> Integer(0)]
    ELSE [panic |-> FALSE,
          current |-> Sum_get(CHOOSE a \in AtomsOfKind("Sum") : TRUE)]

\* C18: for Integer-only inputs every permutation of the stream, and every
\* split of it into two consecutive runs summed apart and combined, gives
\* the sum the program gives.
C18_SumCommutesAssociates ==
    (source = WideSumSource /\ pc \in {"ready", "panicked"} /\ repeats = 0) =>
        LET q == SubmittedNumbers(history)
        IN  /\ SumRun(q) = SumOutcome
            /\ \A f \in Permutations(1..Len(q)) :
                    SumRun([i \in 1..Len(q) |-> q[f[i]]]) = SumOutcome
            /\ \A k \in 0..Len(q) :
                    SumCombine(SumRun(SubSeq(q, 1, k)), SumRun(SubSeq(q, k + 1, Len(q))))
                        = SumOutcome

\* C19: on a stream of at most 2^53 integers of magnitude at most 2^52
\* (here: 2^52 repeated) no add overflows and sum is the mathematical sum,
\* the number of records times 2^52.
C19_SumExact ==
    (source = WideSumSource /\ pc \in {"ready", "panicked"} /\ OnlyOnes(history)) =>
        /\ pc = "ready"
        /\ \A a \in AtomsOfKind("Sum") : Sum_get(a) = Integer(Len(history) + repeats)

----------------------------------------------------------------------------
(* C21 *)

\* The kind table: the atom a function is served by.
KindTable(func_name) ==
    CASE func_name \in {"all", "any"} -> "AllAny"
      [] func_name = "count" -> "Count"
      [] func_name \in {"min", "max"} -> "Extent"
      [] func_name \in {"first", "last"} -> "FirstLast"
      [] func_name \in {"lex_first", "lex_last"} -> "LexicographicExtent"
      [] func_name \in {"median", "median_low", "median_high"} -> "Numbers"
      [] func_name \in {"mode", "cardinality"} -> "Frequencies"
      [] func_name = "sum" -> "Sum"
      [] func_name \in {"mean", "avg", "var", "var_pop", "var_sample", "stddev",
                        "stddev_pop", "stddev_sample"} -> "Welford"

\* The plan of the first k calls of the list.
PlanOfPrefix(L, k) ==
    ConcreteAggregationPlanner_from(concretize_aggregations(SubSeq(L, 1, k)).aggs)

KindsOnce(methods) ==
    \A i, j \in 1..Len(methods) : methods[i].kind = methods[j].kind => i = j

\* What the k-th call of the list did to the blueprint of its unit.
AddMethodContract(L, k) ==
    LET before == PlanOfPrefix(L, k - 1).execution_plan
        after == PlanOfPrefix(L, k)
        o == after.output_plan[k]
        u == o.expr_index + 1
        kind == KindTable(L[k].func_name)
        old == IF u <= Len(before) THEN before[u].aggregator_blueprint.methods
               ELSE << >>
        new == after.execution_plan[u].aggregator_blueprint.methods
    IN  /\ new[o.aggregator_index + 1].kind = kind
        /\ IF \E j \in 1..Len(old) : old[j].kind = kind
           THEN new = old
           ELSE new = Append(old, Aggregator_new(kind)) /\ o.aggregator_index = Len(old)
        /\ \A v \in 1..Len(before) : v # u => after.execution_plan[v] = before[v]

----------------------------------------------------------------------------
(* C22 *)

NoRepeat(q) == \A i, j \in 1..Len(q) : q[i] = q[j] => i = j

\* C22: in one run_with_record call the loop takes the units in
\* execution-plan order, each at most once; a successful call takes every
\* unit, evaluates the expression of each unit that has one exactly once and
\* hands the value to each atom of the unit at most once; a failing call
\* stops at the first unit that fails.
C22_OnePassPerRecord ==
    lastCall.op = "run_with_record" =>
        LET t == lastCall.ret
            plan == planner.execution_plan
        IN  /\ Len(t) <= Len(plan)
            /\ \A k \in 1..Len(t) :
                    /\ t[k].unit = k
                    /\ NoRepeat(t[k].atoms)
                    /\ \A j \in 1..Len(t[k].atoms) :
                            t[k].atoms[j] \in 1..Len(plan[k].aggregator_blueprint.methods)
            /\ lastCall.ok =>
                    /\ Len(t) = Len(plan)
                    /\ \A k \in 1..Len(t) :
                            t[k].ok /\ t[k].evaluated = ~IsNone(plan[k].expr)
            /\ ~lastCall.ok =>
                    /\ Len(t) >= 1
                    /\ ~t[Len(t)].ok
                    /\ \A k \in 1..(Len(t) - 1) : t[k].ok

\* min(a) and max(a) share the expression and the atom: one evaluation and
\* one update in a successful call.
C22_Witness ==
    /\ source = Parsed(<< Call("min", << "a" >>), Call("max", << "a" >>) >>)
    /\ lastCall = [op |-> "run_with_record", ok |-> TRUE,
                   ret |-> << Turn(1, TRUE, TRUE, << 1 >>) >>]

----------------------------------------------------------------------------
(* C23 *)

Unreachable == StringValue("<unreachable>")

\* Every output-plan entry points inside aggs, to an atom of the kind its
\* function requires, for which get_final_value has an arm.
PointsInside(aggs) ==
    \A i \in 1..Len(planner.output_plan) :
        LET o == planner.output_plan[i]
        IN  /\ o.expr_index \in 0..(Len(aggs) - 1)
            /\ o.aggregator_index \in 0..(Len(aggs[o.expr_index + 1].methods) - 1)
            /\ aggs[o.expr_index + 1].methods[o.aggregator_index + 1].kind
                    = KindTable(source.aggs[i].func_name)
            /\ CompositeAggregator_get_final_value(
                    aggs[o.expr_index + 1], o.aggregator_index, o.agg_method)
                    # Unreachable

\* C23: for every accepted list every output-plan entry points inside the
\* instantiated aggregators, of the single-group program and of every group,
\* to an atom of the kind its method requires, so that get_final_value never
\* reaches its unreachable arm.
C23_OutputPlanPointsInside ==
    pc \in {"ready", "drained"} =>
        /\ PointsInside(instantiate_aggregators(planner))
        /\ \A g \in DOMAIN groups : PointsInside(groups[g])

\* Two units, two groups, drained.
C23_Witness ==
    /\ pc = "drained"
    /\ DOMAIN groups = {"x", "y"}
    /\ source = Parsed(<< Call("count", << >>), Call("max", << "a" >>) >>)
    /\ planner.output_plan[2].expr_index = 1
    /\ groups["x"] # groups["y"]

----------------------------------------------------------------------------
(* C24 *)

----------------------------------------------------------------------------
(* C25 *)

\* Aggregators whose atoms are all as their constructor makes them.
FreshAggregators(p) ==
    [i \in 1..Len(p.execution_plan) |->
        [methods |->
            [j \in 1..Len(p.execution_plan[i].aggregator_blueprint.methods) |->
                Aggregator_new(p.execution_plan[i].aggregator_blueprint.methods[j].kind)]]]

BlueprintsFresh(p) == instantiate_aggregators(p) = FreshAggregators(p)

\* A step of a parsed program.
PlanKeptBy ==
    pc # "start" =>
        /\ planner' = planner
        /\ BlueprintsFresh(planner)
        /\ \A g \in (DOMAIN groups') \ (DOMAIN groups) :
                \E index \in Indices :
                    groups'[g] =
                        run_with_record_on_aggregators(
                            planner, FreshAggregators(planner), index,
                            ghistory'[g][Len(ghistory'[g])]).aggregators

\* C25: no call on a parsed program changes the execution plan, the output
\* plan or a blueprint; every blueprint atom stays as constructed, and the
\* aggregators of a group first seen after any number of records are those
\* of an empty program that received the group's first record.
C25_PlanImmutable == [][PlanKeptBy]_vars

\* The group y holds one record and x two, with atoms that have counted.
C25_Witness ==
    /\ pc = "ready"
    /\ DOMAIN groups = {"x", "y"}
    /\ Len(ghistory["x"]) = 2
    /\ Len(ghistory["y"]) = 1
    /\ groups["x"] # FreshAggregators(planner)
    /\ groups["y"] # groups["x"]
    /\ BlueprintsFresh(planner)

----------------------------------------------------------------------------
(* C26 *)

\* The accumulator of the Sum atom of MomentSource.
SumCurrent(aggs) == Sum_get(aggs[1].methods[1])

\* What a step does to the type of the accumulator.
SumTypeStep ==
    (source' = MomentSource /\ pc' = "ready") =>
        CASE lastCall'.op \in {"parse", "clear"} ->
                SumCurrent(aggregators') = Integer(0)
          [] lastCall'.op = "run_with_record" ->
                LET added == history'[Len(history')].record["a"].v
                IN  IF added.tag = "Number"
                    THEN SumCurrent(aggregators').float
                            = (SumCurrent(aggregators).float \/ added.n.float)
                    ELSE SumCurrent(aggregators') = SumCurrent(aggregators)
          [] OTHER -> SumCurrent(aggregators') = SumCurrent(aggregators)

\* C26: the Sum atom starts as Integer 0, stays an Integer while Integers
\* are added, becomes a Float at the first Float added and stays a Float
\* after every later add, until clear() resets it to Integer 0.
C26_SumPromotesAndStays == [][SumTypeStep]_vars

\* After a clear: an Integer, the Float 1.5 twice, an Integer; the sum is the
\* Float 5.
C26_Witness ==
    /\ source = MomentSource
    /\ cleared
    /\ pc = "ready"
    /\ SubmittedNumbers(history)
          = << Integer(1), Float([num |-> 3, den |-> 2]),
               Float([num |-> 3, den |-> 2]), Integer(1) >>
    /\ SumCurrent(aggregators) = Float(FOfInt(5))

----------------------------------------------------------------------------
(* C27 *)

\* The Welford atom of MomentSource.
WelfordAtom == aggregators[1].methods[2]

\* C27: with n values added, mean, var_pop and stddev_pop are empty exactly
\* when n = 0, var_sample and stddev_sample exactly when n < 2; with n = 1
\* var_pop and stddev_pop are 0; otherwise var_pop = M2/n and
\* var_sample = M2/(n-1).
C27_WelfordOutputs ==
    (source = MomentSource /\ lastCall.op = "finalize") =>
        LET n == Len(AcceptedNumbers(history))
            w == WelfordAtom
            out == lastCall.ret
        IN  /\ w.count = n
            /\ \A i \in {2, 3, 5} : (out[i] = "") = (n = 0)
            /\ \A i \in {4, 6} : (out[i] = "") = (n < 2)
            /\ n = 1 => out[3] = "0" /\ out[5] = "0"
            /\ n >= 1 => Aggregator_get_final_value(w, "VarPop")
                            = NumberValue(Float(FDiv(w.m2, FOfInt(n))))
            /\ n >= 2 => Aggregator_get_final_value(w, "VarSample")
                            = NumberValue(Float(FDiv(w.m2, FOfInt(n - 1))))

\* One value added: the population variance is 0, the sample variance empty.
C27_Witness ==
    /\ source = MomentSource
    /\ lastCall.op = "finalize"
    /\ Len(AcceptedNumbers(history)) = 1
    /\ lastCall.ret[3] = "0"
    /\ lastCall.ret[4] = ""
    /\ lastCall.ret[2] # ""

----------------------------------------------------------------------------
(* C28 *)

\* A finalize call, whatever came before it.
FinalizeReturnsWhole ==
    (lastCall'.op = "finalize" /\ lastCall'.ok) =>
        /\ history' = history
        /\ lastCall'.ret = FreshOutput(source, RecordsOf(history))

\* C28: finalize does not consume or reset the accumulators: a finalize
\* that follows records R1, a finalize and records R2 returns what a fresh
\* program fed R1 then R2 returns on its one finalize.
C28_FinalizeKeepsAccumulators == [][FinalizeReturnsWhole]_vars

\* 2 and 1 were fed, finalize sorted them, then 1 was fed: the number list
\* is the sorted pair followed by the late value.
C28_Witness ==
    /\ pc = "ready"
    /\ ~cleared
    /\ source = Parsed(<< Call("median", << "a" >>) >>)
    /\ lastCall.op = "run_with_record"
    /\ SubmittedStrings(history) = << "2", "1", "1" >>
    /\ aggregators[1].methods[1].numbers = << Integer(1), Integer(2), Integer(1) >>

----------------------------------------------------------------------------
(* C29 *)

\* The functions whose output the claim frees from the submission order.
OrderFree ==
    {"count", "min", "max", "lex_first", "lex_last", "cardinality", "mode",
     "median", "median_low", "median_high"}

Permuted(q, f) == [i \in 1..Len(q) |-> q[f[i]]]

\* C29: on a stream where every run_with_record succeeded, the outputs of
\* count, min, max, lex_first, lex_last, cardinality, mode and the three
\* medians are the same for every permutation of the records.
C29_OrderFreeOutputs ==
    (pc = "ready" /\ AllOk(history)) =>
        LET out == AggregationProgram_finalize(planner, aggregators).record
        IN  \A f \in Permutations(1..Len(history)) :
                LET other == FreshOutput(source, Permuted(RecordsOf(history), f))
                IN  \A i \in 1..Len(source.aggs) :
                        source.aggs[i].func_name \in OrderFree => other[i] = out[i]

\* "2" then "1", numbered 0 and 1: in the other order first and last swap
\* and the five other outputs stay.
C29_Witness ==
    /\ pc = "ready"
    /\ ~cleared
    /\ source = StrSource
    /\ AllOk(history)
    /\ SubmittedStrings(history) = << "2", "1" >>
    /\ AggregationProgram_finalize(planner, aggregators).record
            = << "1", "2", "2", "2", "2", "2", "1" >>
    /\ FreshOutput(source, << history[2].record, history[1].record >>)
            = << "1", "2", "2", "2", "2", "1", "2" >>

----------------------------------------------------------------------------
(* C30 *)

\* The functions the claim gives an empty field on no record.
EmptyOnNothing ==
    {"min", "max", "first", "last", "lex_first", "lex_last", "mode", "mean",
     "median", "median_low", "median_high",
     "var_pop", "var_sample", "stddev_pop", "stddev_sample"}

\* The field the claim gives a function on no record.
OutputOnNothing(func_name) ==
    CASE func_name \in {"count", "sum", "cardinality"} -> "0"
      [] func_name = "all" -> "true"
      [] func_name = "any" -> "false"
      [] func_name \in EmptyOnNothing -> ""

\* C30: finalize on a program that received no record since construction
\* or since the last clear does not fail and returns count = 0, sum = the
\* Integer 0, cardinality = 0, all = true, any = false and an empty field for
\* min, max, first, last, lex_first, lex_last, mode, mean, the medians, the
\* variances and the standard deviations.
C30_OutputOnNothing ==
    [][(lastCall'.op = "finalize" /\ history = << >>) =>
        /\ lastCall'.ok
        /\ pc' = "ready"
        /\ Len(lastCall'.ret) = Len(source.aggs)
        /\ \A i \in 1..Len(source.aggs) :
            /\ source.aggs[i].func_name \in
                    {"count", "sum", "cardinality", "all", "any"} \cup EmptyOnNothing
            /\ lastCall'.ret[i] = OutputOnNothing(source.aggs[i].func_name)
            /\ source.aggs[i].func_name = "sum" =>
                    Planner_results(planner, aggregators')[i] = NumberValue(Integer(0))]_vars

\* all(a) and sum(a) took records, were cleared, and finalize has returned
\* true and 0.
C30_Witness ==
    /\ pc = "ready"
    /\ cleared
    /\ history = << >>
    /\ source = Parsed(<< Call("all", << "a" >>), Call("sum", << "a" >>) >>)
    /\ lastCall = [op |-> "finalize", ok |-> TRUE, ret |-> << "true", "0" >>]

----------------------------------------------------------------------------
(* C31 *)

\* The places (unit, atom) of the AllAny atoms.
AllAnyPlaces(aggs) ==
    {x \in (1..Len(aggs)) \X (1..MaxAggs) :
        /\ x[2] <= Len(aggs[x[1]].methods)
        /\ aggs[x[1]].methods[x[2]].kind = "AllAny"}

\* The turns run_with_record takes on a record.
TurnsOf(record) ==
    run_with_record_on_aggregators(planner, instantiate_aggregators(planner), 0,
                                   record).trace

\* The records of h whose value reached atom m of unit u: the arm of the
\* atom ran.
SeenBy(u, m, h) ==
    {k \in 1..Len(h) :
        LET t == TurnsOf(h[k].record)
        IN  /\ u <= Len(t)
            /\ \E j \in 1..Len(t[u].atoms) : t[u].atoms[j] = m}

\* The value of unit u's expression on a record.
ValueAt(u, record) == eval_expr(Unwrap(planner.execution_plan[u].expr), record).v

\* all is the conjunction and any the disjunction of the truthiness of the
\* values seen since construction or the last clear.
AllAnyTracks ==
    \A x \in AllAnyPlaces(aggregators) :
        LET a == aggregators[x[1]].methods[x[2]]
            seen == SeenBy(x[1], x[2], history)
        IN  /\ a.all = (\A k \in seen : is_truthy(ValueAt(x[1], history[k].record)))
            /\ a.any = (\E k \in seen : is_truthy(ValueAt(x[1], history[k].record)))

\* Short of clear, a false all stays false and a true any stays true.
AllAnySticks ==
    lastCall'.op \in {"run_with_record", "finalize"} =>
        \A x \in AllAnyPlaces(aggregators) :
            /\ ~aggregators[x[1]].methods[x[2]].all =>
                    ~aggregators'[x[1]].methods[x[2]].all
            /\ aggregators[x[1]].methods[x[2]].any =>
                    aggregators'[x[1]].methods[x[2]].any

\* C31: after any sequence of values the AllAny atom's all is true exactly
\* when every value it has seen was truthy (true for no values) and its any
\* exactly when at least one was (false for no values); once all is false
\* it stays false and once any is true it stays true until clear().
C31_AllAnyTracksTruthiness == []AllAnyTracks /\ [][AllAnySticks]_vars

\* all(a), any(a) on "1", "", "2": all went false on the empty string and
\* stayed false on "2", any went true on "1" and stayed true.
C31_Witness ==
    /\ pc = "ready"
    /\ ~cleared
    /\ source = Parsed(<< Call("all", << "a" >>), Call("any", << "a" >>) >>)
    /\ lastCall.op = "run_with_record"
    /\ AllOk(history)
    /\ SubmittedStrings(history) = << "1", "", "2" >>
    /\ SeenBy(1, 1, history) = {1, 2, 3}
    /\ aggregators[1].methods = << [kind |-> "AllAny", all |-> FALSE, any |-> TRUE] >>

====
